---- MODULE Spec2Model ----
(***************************************************************************)
(* LegacyLens: the structural COBOL chunker (scripts/lib/chunker.ts), the  *)
(* request handlers with the reranker and the quality gate                 *)
(* (src/app/api/..., src/lib/rerank.ts, src/lib/retrieval.ts), the         *)
(* file-context lookup and the ingestion scripts.                          *)
(*                                                                         *)
(* The specifications share the variables:                                 *)
(*   SpecChunker   chunkFile run on one document drawn from a bounded set  *)
(*   SpecRequest   one request handled by a streaming endpoint             *)
(*   SpecRerank    rerankResults called on its own                         *)
(*   SpecPipeline  one request or test case at any caller of the pipeline, *)
(*                 the file-context lookup included                        *)
(*   SpecIngest    runs of the ingestion scripts over a changing codebase  *)
(***************************************************************************)
EXTENDS Integers, Sequences, FiniteSets, TLC

VARIABLES
    \* ---- chunker (scripts/lib/chunker.ts) ----
    file,             \* the DiscoveredFile given to chunkFile
    cpc,              \* position of chunkFile: "idle" | "scan" | "assemble" | "window" | "done"
    pos,              \* number of lines the for-of loop of splitCobolStructurally has consumed
    chunks,           \* splitCobolStructurally: RawChunk[] chunks
    currentChunk,     \* splitCobolStructurally: LineInfo[] currentChunk
    currentType,      \* splitCobolStructurally: currentType
    currentName,      \* splitCobolStructurally: currentName
    currentDivision,  \* splitCobolStructurally: currentDivision
    currentSection,   \* splitCobolStructurally: currentSection
    rawIdx,           \* chunkCobol: number of raw chunks the for-of loop has consumed
    wlines,           \* fixedSizeChunks: its argument lines
    i,                \* fixedSizeChunks: read cursor i (0-based)
    result,           \* fixedSizeChunks: LineInfo[][] result
    results,          \* chunkCobol / chunkFixedSize: CodeChunk[] results
    \* ---- request handlers (src/app/api/.../route.ts, src/lib/rerank.ts) ----
    endpoint,         \* which POST handler runs: "stream" | "analyze" | "rerank" | "none"
    body,             \* the request body as req.json() would yield it
    rpc,              \* position of the handler (the await it is suspended at)
    topK,             \* const topK
    candidates,       \* const candidates: SearchResult[]
    ranked,           \* const results = await rerankResults(...) (route.ts names it results)
    response,         \* rerankResults: what the grading call produced
    calls,            \* the collaborator calls issued so far, in order
    events,           \* the events enqueued on the response stream, in order
    streamState,      \* the response ReadableStream: "none" | "readable" | "closed" | "cancelled" | "errored"
    genState,         \* the generation stream: "none" | "requested" | "open" | "exhausted" | "failed" | "aborted"
    received,         \* the chunks read from the generation stream, in order
    cancelAt,         \* number of chunks read when the client cancelled, -1 while it has not
    status,           \* HTTP status of the response, 0 while none was returned
    \* ---- vector index, file-context lookup, ingestion scripts ----
    index,            \* the records the vector index holds
    served,           \* file-context: the chunks of the JSON response
    script,           \* the script that runs: "none" | "ingest" | "benchmark"
    ipc,              \* position of the script
    files,            \* const files = await discoverFiles(root)
    fileIdx,          \* number of files the chunking loop has consumed
    allChunks,        \* const allChunks: CodeChunk[]
    allEmbeddings,    \* embedAndUpsert: const allEmbeddings: number[][]
    upserted,         \* embedAndUpsert: number of chunks the upsert loop has sent
    runs,             \* number of script runs that have completed
    embedCalls,       \* embedAndUpsert: the inputs of the embedding calls issued, in order
    upsertCalls,      \* embedAndUpsert: the records of the upsert calls issued, in order
    inflight,         \* embedAndUpsert: collaborator calls issued and not yet answered
    \* ---- the web client (app/page.tsx) ----
    answer,           \* const [answer, setAnswer] = useState("")
    shownResults,     \* const [results, setResults] = useState([])
    isLoading,        \* const [isLoading, setIsLoading] = useState(false)
    isStreaming,      \* const [isStreaming, setIsStreaming] = useState(false)
    latencyMs,        \* const [latencyMs, setLatencyMs]: "null" or "set"
    error,            \* const [error, setError]: "null" or "message"
    queries           \* the calls of runQuery so far, each with its position and its stream

chunkerVars == <<file, cpc, pos, chunks, currentChunk, currentType, currentName,
                 currentDivision, currentSection, rawIdx, wlines, i, result, results>>

requestVars == <<endpoint, body, rpc, topK, candidates, ranked, response, calls, events,
                 streamState, genState, received, cancelAt, status>>

storeVars == <<index, served, script, ipc, files, fileIdx, allChunks, allEmbeddings,
               upserted, runs, embedCalls, upsertCalls, inflight>>

clientVars == <<answer, shownResults, isLoading, isStreaming, latencyMs, error, queries>>

vars == <<chunkerVars, requestVars, storeVars, clientVars>>

\* the page does nothing
ClientIdle == UNCHANGED clientVars

\* the page as first rendered, without a query in its URL
ClientAtRest ==
    /\ answer = ""
    /\ shownResults = <<>>
    /\ isLoading = FALSE
    /\ isStreaming = FALSE
    /\ latencyMs = "null"
    /\ error = "null"
    /\ queries = <<>>

(***************************************************************************)
(* Bounds of the model.                                                    *)
(***************************************************************************)
MaxCobolLines == 4      \* longest COBOL document drawn
MaxFixedLines == 5      \* longest non-COBOL document drawn
MaxMatches == 3         \* most matches the vector index returns
MaxEntries == 2         \* most entries in the scores list of a grading response
MaxChunks == 2          \* most chunks a generation stream delivers
MaxEvalMatches == 9     \* most matches the index returns to a test case of the evaluation
MaxIngestLines == 2     \* longest document of an ingested codebase
MaxRuns == 2            \* most runs of the ingestion scripts in a row
MaxEmbedChunks == 201   \* most chunks handed to embedAndUpsert on its own
MaxQueries == 2         \* most queries the page starts
MaxTokens == 2          \* most token events of one response stream read by the page
MaxReadEvents == 2      \* most events one reader.read() delivers

(***************************************************************************)
(* Program constants.                                                      *)
(***************************************************************************)
MAX_CHUNK_SIZE == 1500
OVERLAP_LINES == 3
TOP_K == 5
RERANK_THRESHOLD == 3
PINECONE_THRESHOLD == 30    \* 0.3, similarity scores being held in hundredths

Undefined == "undefined"

Max(a, b) == IF a >= b THEN a ELSE b
Min(a, b) == IF a <= b THEN a ELSE b

(***************************************************************************)
(* JavaScript values of a request body: t is what typeof yields, s the     *)
(* string and n the number it holds.                                       *)
(***************************************************************************)
JsUndefined == [t |-> "undefined", s |-> "", n |-> 0]
JsString(x) == [t |-> "string", s |-> x, n |-> 0]
JsNumber(x) == [t |-> "number", s |-> "", n |-> x]

NoBody == [parseable |-> FALSE, query |-> JsUndefined, mode |-> JsUndefined, topK |-> JsUndefined]
NoResponse == [kind |-> "none", scores |-> <<>>]

(***************************************************************************)
(* Line texts.  A text is described by its lexical shape, which is all the *)
(* regular expressions of the chunker look at, and its length in           *)
(* characters:                                                             *)
(*   divhdr   "<word> DIVISION..."     sechdr  "<word> SECTION."           *)
(*   label    "<word>."                level01 "01 <word> ..."             *)
(*   progid   "PROGRAM-ID. <word>."    comment "      * ..." (column 7)    *)
(*   blank    ""                       other   any other statement         *)
(***************************************************************************)
TxtDivData   == [kind |-> "divhdr",  word |-> "DATA",      len |-> 14]
TxtDivProc   == [kind |-> "divhdr",  word |-> "procedure", len |-> 19]
TxtSection   == [kind |-> "sechdr",  word |-> "main",      len |-> 13]
TxtParagraph == [kind |-> "label",   word |-> "init-para", len |-> 10]
TxtDigitPara == [kind |-> "label",   word |-> "100",       len |-> 4]
TxtLevel01   == [kind |-> "level01", word |-> "ws-rec",    len |-> 10]
TxtProgramId == [kind |-> "progid",  word |-> "PAYROLL",   len |-> 20]
TxtComment   == [kind |-> "comment", word |-> "",          len |-> 3001]
TxtBlank     == [kind |-> "blank",   word |-> "",          len |-> 0]
TxtHalf      == [kind |-> "other",   word |-> "",          len |-> 749]
TxtFull      == [kind |-> "other",   word |-> "",          len |-> 1499]
TxtHuge      == [kind |-> "other",   word |-> "",          len |-> 3001]
TxtStatement == [kind |-> "other",   word |-> "",          len |-> 20]

CobolTexts == {TxtDivData, TxtDivProc, TxtSection, TxtParagraph, TxtDigitPara,
               TxtLevel01, TxtProgramId, TxtComment}
FixedTexts == {TxtBlank, TxtHalf, TxtFull, TxtHuge}

DivisionWords == {"IDENTIFICATION", "ENVIRONMENT", "DATA", "PROCEDURE"}
DigitWords == {"100"}

\* String.prototype.toUpperCase on the words of the line texts above
toUpperCase(w) ==
    CASE w = "procedure" -> "PROCEDURE"
      [] w = "main"      -> "MAIN"
      [] w = "init-para" -> "INIT-PARA"
      [] w = "ws-rec"    -> "WS-REC"
      [] OTHER           -> w

\* text.match(DIVISION_RE), case-insensitive
MatchDivision(text) == text.kind = "divhdr" /\ toUpperCase(text.word) \in DivisionWords
\* text.match(SECTION_RE)
MatchSection(text) == text.kind = "sechdr"
\* text.match(PARAGRAPH_RE)
MatchParagraph(text) == text.kind = "label"
\* text.match(/^\s*\d/)
StartsWithDigit(text) == text.kind = "level01" \/ (text.kind = "label" /\ text.word \in DigitWords)
\* text.match(/^\s*01\s+/i)
MatchLevel01(text) == text.kind = "level01"
\* text.match(PROGRAM_ID_RE)
MatchProgramId(text) == text.kind = "progid"
isCommentLine(text) == text.kind = "comment"
\* text.trim().length > 0
NonBlank(text) == text.kind # "blank"

(***************************************************************************)
(* Documents.  file.content is held as the list of texts content.split     *)
(* yields: a content of N lines is N texts, the empty content one blank.   *)
(***************************************************************************)
SeqsUpTo(S, n) == UNION {[1..k -> S] : k \in 1..n}

CobolPath == <<"a", "/", "p", ".", "c", "o", "b">>
FixedPath == <<"a", "/", "p", ".", "c">>

\* the 40-line synthetic document of Scenario A: division headers at lines 1
\* and 10 (the second opens the procedure division), paragraph labels at lines
\* 12 and 25, plain statements elsewhere
ScenarioA ==
    [k \in 1..40 |->
        CASE k = 1         -> TxtDivData
          [] k = 10        -> TxtDivProc
          [] k \in {12, 25} -> TxtParagraph
          [] OTHER         -> TxtStatement]

Documents ==
    {[filePath |-> CobolPath, extension |-> ".cob", content |-> c] :
        c \in SeqsUpTo(CobolTexts, MaxCobolLines) \cup {<<TxtBlank>>, ScenarioA}}
    \cup
    {[filePath |-> FixedPath, extension |-> ".c", content |-> c] :
        c \in SeqsUpTo(FixedTexts, MaxFixedLines)}

\* chunkFile: file.content.split("\n").map((text, i) => ({text, lineNumber: i + 1}))
LinesOf(f) == [k \in 1..Len(f.content) |-> [text |-> f.content[k], lineNumber |-> k]]

isCobol(f) == f.extension \in {".cob", ".cbl", ".cpy"}

RECURSIVE FirstProgramId(_, _)
FirstProgramId(ls, k) ==
    IF k > Len(ls) THEN Undefined
    ELSE IF MatchProgramId(ls[k].text) THEN ls[k].text.word
    ELSE FirstProgramId(ls, k + 1)

extractProgramId(ls) == FirstProgramId(ls, 1)

\* chunkFile: const programId = isCobol ? extractProgramId(lines) : undefined
programIdOf(f) == IF isCobol(f) THEN extractProgramId(LinesOf(f)) ELSE Undefined

(***************************************************************************)
(* makeId: every character outside [a-zA-Z0-9] becomes "_".                *)
(***************************************************************************)
AlnumChars == {"a", "b", "c", "o", "p"}

RECURSIVE JoinChars(_)
JoinChars(cs) == IF cs = <<>> THEN "" ELSE Head(cs) \o JoinChars(Tail(cs))

SafeChars(path) == [k \in 1..Len(path) |-> IF path[k] \in AlnumChars THEN path[k] ELSE "_"]

makeId(filePath, startLine) == JoinChars(SafeChars(filePath)) \o "_L" \o ToString(startLine)

\* lines.map((l) => l.text).join("\n").length
RECURSIVE SumLen(_)
SumLen(ls) == IF ls = <<>> THEN 0 ELSE Head(ls).text.len + SumLen(Tail(ls))

ContentLength(ls) == IF ls = <<>> THEN 0 ELSE SumLen(ls) + (Len(ls) - 1)

ContentOf(ls) == [k \in 1..Len(ls) |-> ls[k].text]

(***************************************************************************)
(* splitCobolStructurally                                                  *)
(***************************************************************************)
\* mutant: flush() emits a chunk even when nothing was accumulated
FlushedEvenIfEmpty ==
    Append(chunks,
       [lines |-> currentChunk,
        chunkType |-> currentType,
        name |-> currentName,
        parentSection |-> IF currentSection # "" THEN currentSection
                          ELSE IF currentDivision # "" THEN currentDivision
                          ELSE Undefined])

\* flush(): the value of chunks after it
Flushed ==
    IF Len(currentChunk) = 0 THEN chunks
    ELSE Append(chunks,
           [lines |-> currentChunk,
            chunkType |-> currentType,
            name |-> currentName,
            parentSection |-> IF currentSection # "" THEN currentSection
                              ELSE IF currentDivision # "" THEN currentDivision
                              ELSE Undefined])

\* mutant: flush() forgets to reset the accumulator
FlushedKeepsLines == currentChunk

\* flush(): the value of currentChunk after it
FlushedAccumulator == IF Len(currentChunk) = 0 THEN currentChunk ELSE <<>>

CurLine == LinesOf(file)[pos + 1]

Scanning == cpc = "scan" /\ pos < Len(file.content)

IsDivisionLine(text) == MatchDivision(text)
IsSectionLine(text) == ~IsDivisionLine(text) /\ MatchSection(text) /\ ~isCommentLine(text)
\* mutant: the paragraph test is not confined to the procedure division
IsParagraphLineAnywhere(text) ==
    /\ ~IsDivisionLine(text) /\ ~IsSectionLine(text)
    /\ ~isCommentLine(text)
    /\ NonBlank(text)
    /\ MatchParagraph(text)
    /\ ~StartsWithDigit(text)

IsParagraphLine(text) ==
    /\ ~IsDivisionLine(text) /\ ~IsSectionLine(text)
    /\ currentDivision = "PROCEDURE DIVISION"
    /\ ~isCommentLine(text)
    /\ NonBlank(text)
    /\ MatchParagraph(text)
    /\ ~StartsWithDigit(text)
\* mutant: the level-01 test is not confined to the data division
IsDataLineUngated(text) ==
    /\ ~IsDivisionLine(text) /\ ~IsSectionLine(text) /\ ~IsParagraphLine(text)
    /\ MatchLevel01(text)

IsDataLine(text) ==
    /\ ~IsDivisionLine(text) /\ ~IsSectionLine(text) /\ ~IsParagraphLine(text)
    /\ (currentDivision = "DATA DIVISION" \/ currentType = "data")
    /\ MatchLevel01(text)

WindowFrame == UNCHANGED <<wlines, i, result, results, rawIdx, requestVars, storeVars,
                           clientVars>>

ScanDivision ==
    /\ Scanning
    /\ IsDivisionLine(CurLine.text)
    /\ chunks' = Flushed
    /\ currentDivision' = toUpperCase(CurLine.text.word) \o " DIVISION"
    /\ currentType' = "division"
    /\ currentName' = currentDivision'
    /\ currentSection' = ""
    /\ currentChunk' = Append(FlushedAccumulator, CurLine)
    /\ pos' = pos + 1
    /\ UNCHANGED <<file, cpc>>
    /\ WindowFrame

ScanSection ==
    /\ Scanning
    /\ IsSectionLine(CurLine.text)
    /\ chunks' = Flushed
    /\ currentSection' = toUpperCase(CurLine.text.word)
    /\ currentType' = "section"
    /\ currentName' = currentSection'
    /\ currentChunk' = Append(FlushedAccumulator, CurLine)
    /\ pos' = pos + 1
    /\ UNCHANGED <<file, cpc, currentDivision>>
    /\ WindowFrame

ScanParagraph ==
    /\ Scanning
    /\ IsParagraphLine(CurLine.text)
    /\ chunks' = Flushed
    /\ currentType' = "paragraph"
    /\ currentName' = toUpperCase(CurLine.text.word)
    /\ currentChunk' = Append(FlushedAccumulator, CurLine)
    /\ pos' = pos + 1
    /\ UNCHANGED <<file, cpc, currentDivision, currentSection>>
    /\ WindowFrame

ScanData ==
    /\ Scanning
    /\ IsDataLine(CurLine.text)
    /\ chunks' = Flushed
    /\ currentType' = "data"
    /\ currentName' = IF CurLine.text.word # "" THEN toUpperCase(CurLine.text.word)
                      ELSE "DATA-ITEM"
    /\ currentChunk' = Append(FlushedAccumulator, CurLine)
    /\ pos' = pos + 1
    /\ UNCHANGED <<file, cpc, currentDivision, currentSection>>
    /\ WindowFrame

ScanPlain ==
    /\ Scanning
    /\ ~IsDivisionLine(CurLine.text) /\ ~IsSectionLine(CurLine.text)
    /\ ~IsParagraphLine(CurLine.text) /\ ~IsDataLine(CurLine.text)
    /\ currentChunk' = Append(currentChunk, CurLine)
    /\ pos' = pos + 1
    /\ UNCHANGED <<file, cpc, chunks, currentType, currentName, currentDivision,
                   currentSection>>
    /\ WindowFrame

\* end of the for-of loop: the last flush(), return chunks; chunkCobol starts its loop
ScanEnd ==
    /\ cpc = "scan"
    /\ pos = Len(file.content)
    /\ chunks' = Flushed
    /\ currentChunk' = FlushedAccumulator
    /\ cpc' = "assemble"
    /\ UNCHANGED <<file, pos, currentType, currentName, currentDivision, currentSection>>
    /\ WindowFrame

(***************************************************************************)
(* fixedSizeChunks                                                         *)
(***************************************************************************)
\* the inner while loop: the value of i when it exits
RECURSIVE FillWindow(_, _, _)
FillWindow(ls, k, charCount) ==
    IF k < Len(ls) /\ charCount < MAX_CHUNK_SIZE
    THEN FillWindow(ls, k + 1, charCount + ls[k + 1].text.len + 1)
    ELSE k

\* mutant: the cursor is not backed up but moved past one more line
BackUpSkipsLine(k, chunkStartIdx, n) ==
    IF k < n THEN k + 1 ELSE k

\* mutant: the clamp is the chunk start itself, not one past it
BackUpClampsAtStart(k, chunkStartIdx, n) ==
    IF k < n THEN Max(k - OVERLAP_LINES, chunkStartIdx) ELSE k

\* "back up by OVERLAP_LINES but not before one past the chunk start"
BackUp(k, chunkStartIdx, n) ==
    IF k < n THEN Max(k - OVERLAP_LINES, chunkStartIdx + 1) ELSE k

\* lines[a .. b-1] of a 0-based list
Slice(ls, a, b) == SubSeq(ls, a + 1, b)

\* one iteration of the outer while loop
WindowStep ==
    /\ cpc = "window"
    /\ i < Len(wlines)
    /\ LET end == FillWindow(wlines, i, 0)
       IN /\ result' = Append(result, Slice(wlines, i, end))
          /\ i' = BackUp(end, i, Len(wlines))
    /\ UNCHANGED <<file, cpc, pos, chunks, currentChunk, currentType, currentName,
                   currentDivision, currentSection, rawIdx, wlines, results,
                   requestVars, storeVars, clientVars>>

(***************************************************************************)
(* chunkCobol and chunkFixedSize                                           *)
(***************************************************************************)
CurRaw == chunks[rawIdx + 1]

Oversize(raw) == ContentLength(raw.lines) > MAX_CHUNK_SIZE * 2

PartChunk(sub, chunkType, name, parentSection, programId) ==
    [id |-> makeId(file.filePath, sub[1].lineNumber),
     content |-> ContentOf(sub),
     filePath |-> file.filePath,
     startLine |-> sub[1].lineNumber,
     endLine |-> sub[Len(sub)].lineNumber,
     chunkType |-> chunkType,
     name |-> name,
     parentSection |-> parentSection,
     programId |-> programId]

\* mutant: the parts are numbered from 0
PartNameZeroBased(base, k) == base \o " (part " \o ToString(k - 1) \o ")"

PartName(base, k) == base \o " (part " \o ToString(k) \o ")"

ScanFrame == UNCHANGED <<pos, chunks, currentChunk, currentType, currentName,
                         currentDivision, currentSection, requestVars,
                         storeVars, clientVars>>

\* chunkCobol, else branch: the raw chunk becomes one CodeChunk
AssembleWhole ==
    /\ cpc = "assemble"
    /\ rawIdx < Len(chunks)
    /\ ~Oversize(CurRaw)
    /\ results' = Append(results,
                    PartChunk(CurRaw.lines, CurRaw.chunkType, CurRaw.name,
                              CurRaw.parentSection, programIdOf(file)))
    /\ rawIdx' = rawIdx + 1
    /\ UNCHANGED <<file, cpc, wlines, i, result>>
    /\ ScanFrame

\* chunkCobol, then branch: call fixedSizeChunks(raw.lines)
AssembleSplit ==
    /\ cpc = "assemble"
    /\ rawIdx < Len(chunks)
    /\ Oversize(CurRaw)
    /\ wlines' = CurRaw.lines
    /\ i' = 0
    /\ result' = <<>>
    /\ cpc' = "window"
    /\ UNCHANGED <<file, rawIdx, results>>
    /\ ScanFrame

\* fixedSizeChunks returns to chunkCobol: one CodeChunk per sub chunk
SplitReturn ==
    /\ cpc = "window"
    /\ i >= Len(wlines)
    /\ isCobol(file)
    /\ results' = results \o
          [k \in 1..Len(result) |->
              PartChunk(result[k], CurRaw.chunkType,
                        IF Len(result) > 1 THEN PartName(CurRaw.name, k) ELSE CurRaw.name,
                        CurRaw.parentSection, programIdOf(file))]
    /\ rawIdx' = rawIdx + 1
    /\ cpc' = "assemble"
    /\ UNCHANGED <<file, wlines, i, result>>
    /\ ScanFrame

\* fixedSizeChunks returns to chunkFixedSize
FixedReturn ==
    /\ cpc = "window"
    /\ i >= Len(wlines)
    /\ ~isCobol(file)
    /\ results' =
          [k \in 1..Len(result) |->
              PartChunk(result[k], "fixed",
                        PartName(JoinChars(file.filePath), k), Undefined, Undefined)]
    /\ cpc' = "done"
    /\ UNCHANGED <<file, wlines, i, result, rawIdx>>
    /\ ScanFrame

\* chunkCobol returns results
AssembleEnd ==
    /\ cpc = "assemble"
    /\ rawIdx = Len(chunks)
    /\ cpc' = "done"
    /\ UNCHANGED <<file, rawIdx, wlines, i, result, results>>
    /\ ScanFrame

\* no request is being handled
RequestIdle ==
    /\ endpoint = "none"
    /\ body = NoBody
    /\ rpc = "idle"
    /\ topK = 0
    /\ candidates = <<>>
    /\ ranked = <<>>
    /\ response = NoResponse
    /\ calls = <<>>
    /\ events = <<>>
    /\ streamState = "none"
    /\ genState = "none"
    /\ received = <<>>
    /\ cancelAt = -1
    /\ status = 0

\* an empty index, no lookup served, no script running
StoreAtRest ==
    /\ index = {}
    /\ served = <<>>
    /\ script = "none"
    /\ ipc = "idle"
    /\ files = <<>>
    /\ fileIdx = 0
    /\ allChunks = <<>>
    /\ allEmbeddings = <<>>
    /\ upserted = 0
    /\ runs = 0
    /\ embedCalls = <<>>
    /\ upsertCalls = <<>>
    /\ inflight = 0

\* chunkFile(file): the state at its entry
ChunkerInit ==
    /\ RequestIdle
    /\ ClientAtRest
    /\ StoreAtRest
    /\ file \in Documents
    /\ cpc = IF isCobol(file) THEN "scan" ELSE "window"
    /\ pos = 0
    /\ chunks = <<>>
    /\ currentChunk = <<>>
    /\ currentType = "division"
    /\ currentName = "PREAMBLE"
    /\ currentDivision = ""
    /\ currentSection = ""
    /\ rawIdx = 0
    /\ wlines = IF isCobol(file) THEN <<>> ELSE LinesOf(file)
    /\ i = 0
    /\ result = <<>>
    /\ results = <<>>

ChunkerNext ==
    \/ ScanDivision
    \/ ScanSection
    \/ ScanParagraph
    \/ ScanData
    \/ ScanPlain
    \/ ScanEnd
    \/ AssembleWhole
    \/ AssembleSplit
    \/ WindowStep
    \/ SplitReturn
    \/ FixedReturn
    \/ AssembleEnd

SpecChunker == ChunkerInit /\ [][ChunkerNext]_vars

(***************************************************************************)
(* Properties of the chunker                                               *)
(***************************************************************************)
NumLines == Len(file.content)

ChunkDone == cpc = "done"

Covers(c, n) == c.startLine <= n /\ n <= c.endLine

\* C1 (coverage): when chunkFile has returned, every line number 1..N of the
\* document lies in the inclusive range of at least one emitted chunk, and no
\* chunk reaches outside 1..N.
C1_Coverage ==
    ChunkDone =>
        /\ \A n \in 1..NumLines : \E k \in 1..Len(results) : Covers(results[k], n)
        /\ \A k \in 1..Len(results) :
              /\ 1 <= results[k].startLine
              /\ results[k].startLine <= results[k].endLine
              /\ results[k].endLine <= NumLines

\* a structured document of the largest size whose chunks include window parts
C1_Witness ==
    /\ ChunkDone
    /\ isCobol(file)
    /\ NumLines = MaxCobolLines
    /\ Len(chunks) >= 2
    /\ Len(results) > Len(chunks)

\* content.length of an emitted chunk
ChunkContentLength(c) == ContentLength([k \in 1..Len(c.content) |-> [text |-> c.content[k]]])

\* C7 (oversize bound): every emitted chunk has content length <= 2 x
\* MAX_CHUNK_SIZE, unless it consists of exactly one line that alone exceeds
\* that bound.
C7_OversizeBound ==
    \A k \in 1..Len(results) :
        \/ ChunkContentLength(results[k]) <= 2 * MAX_CHUNK_SIZE
        \/ /\ Len(results[k].content) = 1
           /\ results[k].content[1].len > 2 * MAX_CHUNK_SIZE

WinStart(w) == w[1].lineNumber
WinEnd(w) == w[Len(w)].lineNumber
\* number of lines window b has in common with window a, b starting after a
SharedLines(a, b) == Max(0, Min(WinEnd(a), WinEnd(b)) - WinStart(b) + 1)

\* C8 (windowing progress and termination): the windowing loop over N lines
\* has emitted at most as many windows as the cursor has advanced lines, the
\* cursor never passes N (so at most N windows, then the loop exits), every
\* window after the first starts at least one line after its predecessor's
\* start and shares at most OVERLAP_LINES lines with it.
C8_WindowProgress ==
    /\ Len(result) <= i
    /\ i <= Len(wlines)
    /\ Len(result) <= Len(wlines)
    /\ \A k \in 2..Len(result) :
          /\ WinStart(result[k]) >= WinStart(result[k - 1]) + 1
          /\ SharedLines(result[k - 1], result[k]) <= OVERLAP_LINES

\* the loop has exited after N windows over N lines, two of which share exactly
\* OVERLAP_LINES lines
C8_Witness ==
    /\ cpc = "done"
    /\ Len(wlines) >= 5
    /\ Len(result) = Len(wlines)
    /\ \E k \in 2..Len(result) : SharedLines(result[k - 1], result[k]) = OVERLAP_LINES

RawStart(raw) == raw.lines[1].lineNumber
RawEnd(raw) == raw.lines[Len(raw.lines)].lineNumber

\* the emitted chunks that come from a raw chunk the oversize guard let through
Unsplit == {k \in 1..Len(results) :
              \E r \in 1..Len(chunks) :
                 /\ ~Oversize(chunks[r])
                 /\ results[k].startLine = RawStart(chunks[r])
                 /\ results[k].endLine = RawEnd(chunks[r])}

\* C9 (contiguity): in the structural path the raw chunks tile the document
\* (the first starts at line 1, each next one starts one line after the
\* previous ends, the last ends at line N), and the emitted chunks that were not
\* split by the oversize guard have strictly increasing, non-overlapping ranges.
C9_Contiguity ==
    (ChunkDone /\ isCobol(file)) =>
        /\ Len(chunks) >= 1
        /\ RawStart(chunks[1]) = 1
        /\ RawEnd(chunks[Len(chunks)]) = NumLines
        /\ \A r \in 1..Len(chunks) :
              \A n \in 1..Len(chunks[r].lines) :
                 chunks[r].lines[n].lineNumber = RawStart(chunks[r]) + n - 1
        /\ \A r \in 2..Len(chunks) : RawStart(chunks[r]) = RawEnd(chunks[r - 1]) + 1
        /\ \A r \in 1..Len(chunks) :
              ~Oversize(chunks[r]) =>
                 Cardinality({k \in 1..Len(results) :
                                /\ results[k].startLine = RawStart(chunks[r])
                                /\ results[k].endLine = RawEnd(chunks[r])}) = 1
        /\ \A a, b \in Unsplit : a < b => results[a].endLine < results[b].startLine

\* a structured document with three raw chunks or more, one of them split
C9_Witness ==
    /\ ChunkDone
    /\ isCobol(file)
    /\ Len(chunks) >= 3
    /\ Cardinality(Unsplit) >= 2
    /\ \E r \in 1..Len(chunks) : Oversize(chunks[r])

\* the division a line lies in: the last division header above it
DivisionAbove(L) ==
    LET hs == {j \in 1..(L - 1) : MatchDivision(file.content[j])}
    IN IF hs = {} THEN ""
       ELSE toUpperCase(file.content[CHOOSE j \in hs : \A h \in hs : h <= j].word)
               \o " DIVISION"

\* line L of the document is a division, section, paragraph or top-level data
\* boundary, as read off the document alone
BoundaryAt(L) ==
    LET t == file.content[L]
    IN \/ MatchDivision(t)
       \/ MatchSection(t) /\ ~isCommentLine(t)
       \/ /\ DivisionAbove(L) = "PROCEDURE DIVISION"
          /\ MatchParagraph(t) /\ ~StartsWithDigit(t)
          /\ NonBlank(t) /\ ~isCommentLine(t)
       \/ DivisionAbove(L) = "DATA DIVISION" /\ MatchLevel01(t)

StartLines == {L \in 1..NumLines : L = 1 \/ BoundaryAt(L)}

NoOversize == \A r \in 1..Len(chunks) : ~Oversize(chunks[r])

Ranges == [k \in 1..Len(results) |-> <<results[k].startLine, results[k].endLine>>]

\* C22 (structural boundaries, Scenario A): in the structural path, when no raw
\* chunk is oversize, the emitted chunks start exactly at line 1 and at the
\* lines recognised as division, section, paragraph or top-level data
\* boundaries, each chunk ends on the line before the next such line or on the
\* last line, and the 40-line document of Scenario A yields exactly the four
\* chunks [1-9], [10-11], [12-24], [25-40].
C22_StructuralBoundaries ==
    (ChunkDone /\ isCobol(file) /\ NoOversize) =>
        /\ {results[k].startLine : k \in 1..Len(results)} = StartLines
        /\ Len(results) = Cardinality(StartLines)
        /\ \A k \in 1..Len(results) :
              LET later == {L \in StartLines : L > results[k].startLine}
              IN results[k].endLine =
                    IF later = {} THEN NumLines
                    ELSE (CHOOSE L \in later : \A M \in later : L <= M) - 1
        /\ file.content = ScenarioA =>
              Ranges = <<(<<1, 9>>), (<<10, 11>>), (<<12, 24>>), (<<25, 40>>)>>

\* Scenario A has been chunked
C22_Witness ==
    /\ ChunkDone
    /\ file.content = ScenarioA
    /\ Len(results) = 4

\* the raw chunks chunkCobol has already turned into emitted chunks
Assembled == {r \in 1..Len(chunks) : r <= rawIdx /\ isCobol(file)}

\* the emitted chunks that come from raw chunk r, in emission order
PartsOf(r) == {k \in 1..Len(results) :
                 /\ RawStart(chunks[r]) <= results[k].startLine
                 /\ results[k].startLine <= RawEnd(chunks[r])}

\* 1-based position of emitted chunk k among the parts of raw chunk r
PartNumber(r, k) == Cardinality({j \in PartsOf(r) : j <= k})

\* every part of an oversize raw chunk keeps its parent's chunkType,
\* parentSection and programId, and the parts of the raw chunk split last are
\* the windows fixedSizeChunks returned for it
PartsInherit ==
    /\ \A r \in Assembled :
          Oversize(chunks[r]) =>
             \A k \in PartsOf(r) :
                /\ results[k].chunkType = chunks[r].chunkType
                /\ results[k].parentSection = chunks[r].parentSection
                /\ results[k].programId = programIdOf(file)
    /\ (cpc = "assemble" /\ rawIdx >= 1 /\ Oversize(chunks[rawIdx])) =>
          /\ Cardinality(PartsOf(rawIdx)) = Len(result)
          /\ \A k \in PartsOf(rawIdx) :
                LET w == result[PartNumber(rawIdx, k)]
                IN /\ results[k].startLine = WinStart(w)
                   /\ results[k].endLine = WinEnd(w)
                   /\ results[k].content = ContentOf(w)

\* the text "<name> (part n)"
Suffixed(name, n) == name \o " (part " \o ToString(n) \o ")"

\* C23 (oversize parts), as claimed: a structural chunk whose content length
\* exceeds 2 x MAX_CHUNK_SIZE is replaced by its window parts, every part
\* keeps the parent's chunkType, parentSection and programId, and every part
\* is named "<parent name> (part N)", N its 1-based position among the parts.
C23_AllPartsSuffixed ==
    /\ PartsInherit
    /\ \A r \in Assembled :
          Oversize(chunks[r]) =>
             \A k \in PartsOf(r) :
                results[k].name = Suffixed(chunks[r].name, PartNumber(r, k))

\* C23 (oversize parts), as the code has it: the parts keep the parent's
\* chunkType, parentSection and programId; they are named
\* "<parent name> (part N)", N 1-based, when the windowing returned more than
\* one part, and a lone part keeps the parent's name unchanged.
C23_OversizeParts ==
    /\ PartsInherit
    /\ \A r \in Assembled :
          Oversize(chunks[r]) =>
             \A k \in PartsOf(r) :
                results[k].name =
                   IF Cardinality(PartsOf(r)) > 1
                   THEN Suffixed(chunks[r].name, PartNumber(r, k))
                   ELSE chunks[r].name

\* a document with an oversize chunk split in several parts and another one
\* that windowing returned as a single part
C23_Witness ==
    /\ ChunkDone
    /\ \E r \in Assembled : Oversize(chunks[r]) /\ Cardinality(PartsOf(r)) > 1
    /\ \E r \in Assembled : Oversize(chunks[r]) /\ Cardinality(PartsOf(r)) = 1

\* the chunk the scanner state describes before the line at hand is looked at
LabelledBefore ==
    [lines |-> currentChunk,
     chunkType |-> currentType,
     name |-> currentName,
     parentSection |-> IF currentSection # "" THEN currentSection
                       ELSE IF currentDivision # "" THEN currentDivision
                       ELSE Undefined]

\* what a flush must do to the list of raw chunks
FlushesBefore ==
    chunks' = IF currentChunk = <<>> THEN chunks ELSE Append(chunks, LabelledBefore)

\* one line is scanned: a boundary line flushes the accumulator under the
\* labels held before the match and opens the next accumulator; any other line
\* is appended
ScanStepLabelling ==
    (cpc = "scan" /\ pos' = pos + 1) =>
        IF BoundaryAt(pos + 1)
        THEN FlushesBefore /\ currentChunk' = <<CurLine>>
        ELSE chunks' = chunks /\ currentChunk' = Append(currentChunk, CurLine)

\* the flush at the end of the document
LastFlushLabelling ==
    (cpc = "scan" /\ cpc' = "assemble") => FlushesBefore

NoEmptyChunk == \A r \in 1..Len(chunks) : Len(chunks[r].lines) > 0

\* C24 (flush labelling): when a boundary line matches, the lines accumulated
\* so far are emitted as one chunk whose chunkType, name and parentSection are
\* those of the scanner state before the match, and the matching line is the
\* first line of the next accumulator; a flush with an empty accumulator emits
\* nothing, so no raw chunk is ever empty.
C24_FlushLabelling ==
    /\ []NoEmptyChunk
    /\ [][ScanStepLabelling /\ LastFlushLabelling]_vars

\* a boundary line on line 1 found the accumulator empty, and a later boundary
\* flushed a chunk whose labels differ from the ones now in force
C24_Witness ==
    /\ cpc = "scan"
    /\ BoundaryAt(1)
    /\ Len(chunks) >= 1
    /\ chunks[Len(chunks)].chunkType # currentType
    /\ chunks[Len(chunks)].name # currentName
    /\ Len(currentChunk) >= 1
    /\ RawStart(chunks[1]) = 1

\* the scanner's labels agree with the division it is in
TypeFollowsDivision ==
    /\ currentType = "paragraph" => currentDivision = "PROCEDURE DIVISION"
    /\ currentType = "data" => currentDivision = "DATA DIVISION"

\* a line that passes the paragraph label test apart from the division gate
ParagraphShaped(t) ==
    /\ MatchParagraph(t) /\ ~StartsWithDigit(t)
    /\ NonBlank(t) /\ ~isCommentLine(t)
    /\ ~MatchDivision(t) /\ ~MatchSection(t)

\* a level-01 line that is no division or section header
Level01Shaped(t) == MatchLevel01(t) /\ ~MatchDivision(t) /\ ~MatchSection(t)

\* the line at hand is shut out by the division gate
GatedOut ==
    \/ ParagraphShaped(CurLine.text) /\ currentDivision # "PROCEDURE DIVISION"
    \/ Level01Shaped(CurLine.text) /\ currentDivision # "DATA DIVISION"

ScanStep == cpc = "scan" /\ pos' = pos + 1

\* a scanning step on a gated-out line only appends it
GatedOutAppends ==
    (ScanStep /\ GatedOut) =>
        /\ chunks' = chunks
        /\ currentChunk' = Append(currentChunk, CurLine)
        /\ currentType' = currentType
        /\ currentName' = currentName

\* a step that opens a paragraph or data chunk is taken inside the matching
\* division
OpensInsideDivision ==
    (ScanStep /\ currentChunk' = <<CurLine>>) =>
        /\ currentType' = "paragraph" => currentDivision = "PROCEDURE DIVISION"
        /\ currentType' = "data" => currentDivision = "DATA DIVISION"

\* C25 (classifier gating): in every scanner state, current type "paragraph"
\* implies the current division is PROCEDURE DIVISION and current type "data"
\* implies it is DATA DIVISION; a paragraph or data chunk is opened only inside
\* the matching division, and a paragraph-shaped line in another division or a
\* level-01 line outside the data division is appended to the accumulator
\* without starting a chunk.
C25_ClassifierGating ==
    /\ []TypeFollowsDivision
    /\ [][GatedOutAppends /\ OpensInsideDivision]_vars

\* a paragraph-shaped line of the data division and a level-01 line of the
\* procedure division were appended to an open chunk
C25_Witness ==
    /\ cpc = "scan"
    /\ Len(currentChunk) >= 2
    /\ \/ /\ currentDivision = "DATA DIVISION"
          /\ currentType = "data"
          /\ ParagraphShaped(currentChunk[Len(currentChunk)].text)
       \/ /\ currentDivision = "PROCEDURE DIVISION"
          /\ currentType = "paragraph"
          /\ Level01Shaped(currentChunk[Len(currentChunk)].text)

\* C28 (no redundant window): every window after the first contains at least
\* one line lying after the last line of its predecessor, so that no window's
\* line range is wholly contained in the range of the window before it.
C28_NoRedundantWindow ==
    \A k \in 2..Len(result) : WinEnd(result[k]) > WinEnd(result[k - 1])

(***************************************************************************)
(* rerankResults (src/lib/rerank.ts)                                       *)
(***************************************************************************)
\* Array.prototype.slice(0, k): a negative k counts from the end
SliceTo(ls, k) ==
    IF k >= 0 THEN SubSeq(ls, 1, Min(k, Len(ls)))
    ELSE SubSeq(ls, 1, Max(Len(ls) + k, 0))

\* results.slice(0, topK): the reranker's fallback
Fallback(rs, k) == SliceTo(rs, k)

\* the grading call threw, or its completion has no content
CallFailed(resp) == resp.kind \in {"throws", "nocontent"}
\* JSON.parse(raw) throws, or parsed is null so that parsed.scores throws
ParseThrows(resp) == resp.kind = "badjson"
\* !Array.isArray(parsed.scores)
NotAList(resp) == resp.kind = "notlist"
\* an entry that is null: reading s.index throws
HasNullEntry(resp) == \E k \in 1..Len(resp.scores) : resp.scores[k].kind = "null"
\* typeof s.index === "number" && typeof s.score === "number"
NumericPair(e) == e.kind = "pair"

\* scoreMap.get(idx) ?? 0 after the loop over the first n entries: the last
\* numeric pair for idx wins
RECURSIVE ScoreOf(_, _, _)
ScoreOf(entries, n, idx) ==
    IF n = 0 THEN 0
    ELSE IF NumericPair(entries[n]) /\ entries[n].index = idx THEN entries[n].score
    ELSE ScoreOf(entries, n - 1, idx)

\* mutant: an unstable sort, x goes before its equals
RECURSIVE InsertDescUnstable(_, _)
InsertDescUnstable(sorted, x) ==
    IF sorted = <<>> THEN <<x>>
    ELSE IF Head(sorted).rerankScore > x.rerankScore
         THEN <<Head(sorted)>> \o InsertDescUnstable(Tail(sorted), x)
         ELSE <<x>> \o sorted

\* insert x into a list sorted by descending rerankScore, after its equals
RECURSIVE InsertDesc(_, _)
InsertDesc(sorted, x) ==
    IF sorted = <<>> THEN <<x>>
    ELSE IF Head(sorted).rerankScore >= x.rerankScore
         THEN <<Head(sorted)>> \o InsertDesc(Tail(sorted), x)
         ELSE <<x>> \o sorted

\* .sort((a, b) => b.rerankScore - a.rerankScore): a stable sort
RECURSIVE SortDesc(_, _)
SortDesc(ls, n) == IF n = 0 THEN <<>> ELSE InsertDesc(SortDesc(ls, n - 1), ls[n])

\* .map(scored).sort(desc).slice(0, topK).map(attach rerankScore)
Scored(rs, k, entries) ==
    SliceTo(SortDesc([j \in 1..Len(rs) |->
                        [chunk |-> rs[j].chunk, score |-> rs[j].score, reranked |-> TRUE,
                         rerankScore |-> ScoreOf(entries, Len(entries), j - 1)]],
                     Len(rs)),
            k)

\* mutant: the passthrough test is <, so exactly topK candidates are graded
NoGradingStrict(rs, k) == Len(rs) < k

\* if (results.length <= topK) return results
NoGrading(rs, k) == Len(rs) <= k

\* what rerankResults returns once the grading call has produced resp
Reranked(rs, k, resp) ==
    IF CallFailed(resp) \/ ParseThrows(resp) \/ NotAList(resp) \/ HasNullEntry(resp)
    THEN Fallback(rs, k)
    ELSE Scored(rs, k, resp.scores)

(***************************************************************************)
(* What the collaborators may answer.                                      *)
(***************************************************************************)
SimilarityScores == {29, 30}
GradeScores == {2, 3, 11}

\* a match of the index: its score may be missing (m.score ?? 0)
Matches == {[hasScore |-> TRUE, score |-> x] : x \in SimilarityScores}
           \cup {[hasScore |-> FALSE, score |-> 0]}

ScoreOrZero(m) == IF m.hasScore THEN m.score ELSE 0

\* the index answers with at most fetchK matches in descending similarity
MatchLists(fetchK) ==
    {ms \in UNION {[1..n -> Matches] : n \in 0..Min(Max(fetchK, 0), MaxMatches)} :
        \A k \in 2..Len(ms) : ScoreOrZero(ms[k - 1]) >= ScoreOrZero(ms[k])}

\* (pineconeResults.matches ?? []).map(...): chunk k stands for the k-th match's metadata
CandidatesOf(ms) ==
    [k \in 1..Len(ms) |-> [chunk |-> k, score |-> ScoreOrZero(ms[k]), reranked |-> FALSE,
                           rerankScore |-> 0]]

Entries(n) ==
    {[kind |-> "pair", index |-> idx, score |-> x] : idx \in 0..(n - 1), x \in GradeScores}
    \cup {[kind |-> "strings", index |-> 0, score |-> 0],
          [kind |-> "null", index |-> 0, score |-> 0]}

\* the outcomes of the grading call for n candidates
Responses(n) ==
    {[kind |-> x, scores |-> <<>>] : x \in {"throws", "nocontent", "badjson", "notlist"}}
    \cup {[kind |-> "list", scores |-> es] :
            es \in UNION {[1..m -> Entries(n)] : m \in 0..MaxEntries}}

\* a chunk of the generation stream and its choices[0]?.delta?.content
StreamChunks == {[hasContent |-> FALSE, content |-> ""],
                 [hasContent |-> TRUE, content |-> ""],
                 [hasContent |-> TRUE, content |-> "a"],
                 [hasContent |-> TRUE, content |-> " "]}

\* mutant: deltas of white space only are skipped as well, if (delta?.trim())
TruthyTrimmed(c) == c.hasContent /\ c.content \notin {"", " "}

\* if (delta)
Truthy(c) == c.hasContent /\ c.content # ""

(***************************************************************************)
(* Mode configuration (src/lib/prompts.ts) and the request bodies drawn.   *)
(***************************************************************************)
VALID_MODES == {"explain", "dependencies", "documentation", "business-logic"}

defaultTopK(mode) ==
    CASE mode = "explain" -> 5
      [] mode = "dependencies" -> 10
      [] OTHER -> 8

queryPrefix(mode) ==
    CASE mode = "explain" -> ""
      [] mode = "dependencies" -> "CALL PERFORM COPY dependencies of "
      [] mode = "documentation" -> "documentation overview of "
      [] OTHER -> "business rules conditions calculations validations in "

QueryInputs == {JsUndefined, JsString(""), JsString("q"), JsNumber(7)}
ModeInputs == {JsUndefined, JsString("explain"), JsString("dependencies"), JsString("bogus")}
TopKInputs == {JsUndefined, JsString("2"), JsNumber(-1), JsNumber(0), JsNumber(1), JsNumber(2)}

Bodies(ep) ==
    {[parseable |-> TRUE, query |-> q, mode |-> m, topK |-> k] :
        q \in QueryInputs,
        m \in IF ep = "analyze" THEN ModeInputs ELSE {JsUndefined},
        k \in TopKInputs}
    \cup {NoBody}

\* !query || typeof query !== "string"
BadQuery(b) == ~(b.query.t = "string" /\ b.query.s # "")
\* !mode || !VALID_MODES.has(mode)
BadMode(b) == ~(b.mode.t = "string" /\ b.mode.s \in VALID_MODES)

\* typeof body.topK === "number" ? body.topK : <default>
EffectiveTopK(ep, b) ==
    IF b.topK.t = "number" THEN b.topK.n
    ELSE IF ep = "analyze" THEN defaultTopK(b.mode.s) ELSE TOP_K

\* config.queryPrefix ? config.queryPrefix + query : query
searchQuery(ep, b) ==
    IF ep = "analyze" /\ queryPrefix(b.mode.s) # "" THEN queryPrefix(b.mode.s) \o b.query.s
    ELSE b.query.s

Call(svc, streaming, text, k) == [svc |-> svc, stream |-> streaming, text |-> text, topK |-> k]

(***************************************************************************)
(* The events of the response stream.                                      *)
(***************************************************************************)
NO_RESULTS_MESSAGE ==
    "No relevant code found for this query. Try being more specific or using terms from the codebase (e.g., file names, COBOL keywords, or program identifiers)."

SourcesEvent(rs) == [type |-> "sources", results |-> rs, content |-> ""]
TokenEvent(text) == [type |-> "token", results |-> <<>>, content |-> text]
DoneEvent == [type |-> "done", results |-> <<>>, content |-> ""]

\* mutant: the refusal stream is closed without its done event
RefusalWithoutDone == <<SourcesEvent(<<>>), TokenEvent(NO_RESULTS_MESSAGE)>>

\* the gate-failure stream: start() enqueues these and closes
RefusalEvents == <<SourcesEvent(<<>>), TokenEvent(NO_RESULTS_MESSAGE), DoneEvent>>

\* mutant: the sources event is not sent ahead of the tokens
NoFirstEvents(rs) == <<>>

\* start(): the first enqueue of an answer stream
FirstEvents(rs) == <<SourcesEvent(rs)>>

\* mutant: the gate compares with > where the code has >=
GateStrict(rs) ==
    /\ Len(rs) > 0
    /\ IF rs[1].reranked THEN rs[1].rerankScore > RERANK_THRESHOLD
       ELSE rs[1].score > PINECONE_THRESHOLD

\* the quality gate: !( !topResult || topScore < threshold )
GatePasses(rs) ==
    /\ Len(rs) > 0
    /\ IF rs[1].reranked THEN ~(rs[1].rerankScore < RERANK_THRESHOLD)
       ELSE ~(rs[1].score < PINECONE_THRESHOLD)

ChunkerIdle == UNCHANGED chunkerVars

\* the index is not written, no lookup is served and no script runs
StoreIdle == UNCHANGED storeVars

(***************************************************************************)
(* POST of /api/query/stream ("stream") and of /api/analyze/stream         *)
(* ("analyze"): one action per stretch of code between two awaits.         *)
(***************************************************************************)
Streaming == endpoint \in {"stream", "analyze"}

\* req.json() throws: the catch block answers 500
BodyUnparseable ==
    /\ Streaming /\ rpc = "received"
    /\ ~body.parseable
    /\ rpc' = "responded"
    /\ status' = 500
    /\ UNCHANGED <<endpoint, body, topK, candidates, ranked, response, calls, events,
                   streamState, genState, received, cancelAt>>
    /\ ChunkerIdle
    /\ ClientIdle
    /\ StoreIdle

\* a missing or malformed field: 400 before any collaborator call
Reject ==
    /\ Streaming /\ rpc = "received"
    /\ body.parseable
    /\ BadQuery(body) \/ (endpoint = "analyze" /\ BadMode(body))
    /\ rpc' = "responded"
    /\ status' = 400
    /\ UNCHANGED <<endpoint, body, topK, candidates, ranked, response, calls, events,
                   streamState, genState, received, cancelAt>>
    /\ ChunkerIdle
    /\ ClientIdle
    /\ StoreIdle

\* the body is valid: openai.embeddings.create({input: searchQuery}) is awaited
EmbedCall ==
    /\ Streaming /\ rpc = "received"
    /\ body.parseable
    /\ ~BadQuery(body)
    /\ endpoint = "analyze" => ~BadMode(body)
    /\ topK' = EffectiveTopK(endpoint, body)
    /\ calls' = Append(calls, Call("embeddings", FALSE, searchQuery(endpoint, body), 0))
    /\ rpc' = "embedding"
    /\ UNCHANGED <<endpoint, body, candidates, ranked, response, events, streamState,
                   genState, received, cancelAt, status>>
    /\ ChunkerIdle
    /\ ClientIdle
    /\ StoreIdle

\* the embedding arrives: index.query({topK: topK * 2}) is awaited
SearchCall ==
    /\ rpc = "embedding"
    /\ calls' = Append(calls, Call("index", FALSE, "", topK * 2))
    /\ rpc' = "searching"
    /\ UNCHANGED <<endpoint, body, topK, candidates, ranked, response, events, streamState,
                   genState, received, cancelAt, status>>
    /\ ChunkerIdle
    /\ ClientIdle
    /\ StoreIdle

\* an awaited collaborator call throws before any stream exists: the catch
\* block answers 500
UpstreamFail ==
    /\ rpc \in {"embedding", "searching", "generating"}
    /\ rpc' = "responded"
    /\ status' = 500
    /\ genState' = IF rpc = "generating" THEN "failed" ELSE genState
    /\ UNCHANGED <<endpoint, body, topK, candidates, ranked, response, calls, events,
                   streamState, received, cancelAt>>
    /\ ChunkerIdle
    /\ ClientIdle
    /\ StoreIdle

\* the matches arrive and are mapped to candidates; rerankResults returns them
\* unchanged when there are no more than topK
SearchReturnFew ==
    /\ rpc = "searching"
    /\ \E ms \in MatchLists(topK * 2) :
          /\ NoGrading(CandidatesOf(ms), topK)
          /\ candidates' = CandidatesOf(ms)
          /\ ranked' = candidates'
    /\ rpc' = "ranked"
    /\ UNCHANGED <<endpoint, body, topK, response, calls, events, streamState, genState,
                   received, cancelAt, status>>
    /\ ChunkerIdle
    /\ ClientIdle
    /\ StoreIdle

\* mutant: the streaming generation request is issued together with the
\* grading call, without waiting for it
SearchReturnManySpeculative ==
    /\ rpc = "searching"
    /\ \E ms \in MatchLists(topK * 2) :
          /\ ~NoGrading(CandidatesOf(ms), topK)
          /\ candidates' = CandidatesOf(ms)
    /\ calls' = calls \o <<Call("chat", FALSE, body.query.s, 0),
                           Call("chat", TRUE, body.query.s, 0)>>
    /\ genState' = "requested"
    /\ rpc' = "grading"
    /\ UNCHANGED <<endpoint, body, topK, ranked, response, events, streamState,
                   received, cancelAt, status>>
    /\ ChunkerIdle
    /\ ClientIdle
    /\ StoreIdle

\* there are more than topK candidates: rerankResults awaits the grading call,
\* which is given the raw query
SearchReturnMany ==
    /\ rpc = "searching"
    /\ \E ms \in MatchLists(topK * 2) :
          /\ ~NoGrading(CandidatesOf(ms), topK)
          /\ candidates' = CandidatesOf(ms)
    /\ calls' = Append(calls, Call("chat", FALSE, body.query.s, 0))
    /\ rpc' = "grading"
    /\ UNCHANGED <<endpoint, body, topK, ranked, response, events, streamState, genState,
                   received, cancelAt, status>>
    /\ ChunkerIdle
    /\ ClientIdle
    /\ StoreIdle

\* the grading call ends one way or another; rerankResults returns
GradeReturn ==
    /\ Streaming /\ rpc = "grading"
    /\ \E resp \in Responses(Len(candidates)) :
          ranked' = Reranked(candidates, topK, resp)
    /\ rpc' = "ranked"
    /\ UNCHANGED <<endpoint, body, topK, candidates, response, calls, events, streamState,
                   genState, received, cancelAt, status>>
    /\ ChunkerIdle
    /\ ClientIdle
    /\ StoreIdle

\* mutant: the streaming generation request is issued before the gate is
\* looked at, and its stream dropped when the gate fails
GateRefuseCostly ==
    /\ rpc = "ranked"
    /\ endpoint = "analyze"
    /\ ~GatePasses(ranked)
    /\ calls' = Append(calls, Call("chat", TRUE, body.query.s, 0))
    /\ events' = RefusalEvents
    /\ streamState' = "closed"
    /\ rpc' = "closed"
    /\ status' = 200
    /\ UNCHANGED <<endpoint, body, topK, candidates, ranked, response, genState,
                   received, cancelAt>>
    /\ ChunkerIdle
    /\ ClientIdle
    /\ StoreIdle

\* analysis only: the quality gate fails; the refusal stream is built, its
\* start() enqueues the three events and closes, and the response is returned
GateRefuse ==
    /\ rpc = "ranked"
    /\ endpoint = "analyze"
    /\ ~GatePasses(ranked)
    /\ events' = RefusalEvents
    /\ streamState' = "closed"
    /\ rpc' = "closed"
    /\ status' = 200
    /\ UNCHANGED <<endpoint, body, topK, candidates, ranked, response, calls, genState,
                   received, cancelAt>>
    /\ ChunkerIdle
    /\ ClientIdle
    /\ StoreIdle

\* the context is built and openai.chat.completions.create({stream: true}) awaited
GenerateCall ==
    /\ rpc = "ranked"
    /\ endpoint = "analyze" => GatePasses(ranked)
    /\ calls' = Append(calls, Call("chat", TRUE, body.query.s, 0))
    /\ genState' = "requested"
    /\ rpc' = "generating"
    /\ UNCHANGED <<endpoint, body, topK, candidates, ranked, response, events, streamState,
                   received, cancelAt, status>>
    /\ ChunkerIdle
    /\ ClientIdle
    /\ StoreIdle

\* the generation stream is open: the ReadableStream is constructed, start()
\* enqueues the sources event and suspends at the first chunk; the response is
\* returned
GenerateReturn ==
    /\ rpc = "generating"
    /\ genState' = "open"
    /\ events' = FirstEvents(ranked)
    /\ streamState' = "readable"
    /\ rpc' = "forwarding"
    /\ status' = 200
    /\ UNCHANGED <<endpoint, body, topK, candidates, ranked, response, calls, received,
                   cancelAt>>
    /\ ChunkerIdle
    /\ ClientIdle
    /\ StoreIdle

\* the client cancels the response stream (or disconnects, and the server
\* cancels it): the stream is closed to its controller from now on
ClientCancel ==
    /\ rpc = "forwarding"
    /\ streamState = "readable"
    /\ streamState' = "cancelled"
    /\ cancelAt' = Len(received)
    /\ UNCHANGED <<endpoint, body, rpc, topK, candidates, ranked, response, calls, events,
                   genState, received, status>>
    /\ ChunkerIdle
    /\ ClientIdle
    /\ StoreIdle

\* for await: the next chunk arrives.  A chunk without text is skipped; one
\* with text is enqueued as a token event.  controller.enqueue throws once the
\* stream is no longer readable: the loop is left by the exception, which
\* returns the iterator (the generation request is aborted), and start() rejects
ForwardChunk ==
    /\ rpc = "forwarding"
    /\ Len(received) < MaxChunks
    /\ \E c \in StreamChunks :
          /\ received' = Append(received, c)
          /\ IF ~Truthy(c)
             THEN UNCHANGED <<events, rpc, genState>>
             ELSE IF streamState = "readable"
             THEN /\ events' = Append(events, TokenEvent(c.content))
                  /\ UNCHANGED <<rpc, genState>>
             ELSE /\ rpc' = "errored"
                  /\ genState' = "aborted"
                  /\ UNCHANGED events
    /\ UNCHANGED <<endpoint, body, topK, candidates, ranked, response, calls, streamState,
                   cancelAt, status>>
    /\ ChunkerIdle
    /\ ClientIdle
    /\ StoreIdle

\* the generation stream ends: done is enqueued and the stream closed, unless
\* the stream is no longer readable and the enqueue throws
StreamEnd ==
    /\ rpc = "forwarding"
    /\ genState' = "exhausted"
    /\ IF streamState = "readable"
       THEN /\ events' = Append(events, DoneEvent)
            /\ streamState' = "closed"
            /\ rpc' = "closed"
       ELSE /\ rpc' = "errored"
            /\ UNCHANGED <<events, streamState>>
    /\ UNCHANGED <<endpoint, body, topK, candidates, ranked, response, calls, received,
                   cancelAt, status>>
    /\ ChunkerIdle
    /\ ClientIdle
    /\ StoreIdle

\* mutant: the loop sits in a try/finally that sends done and closes
StreamFailSendsDone ==
    /\ rpc = "forwarding"
    /\ genState' = "failed"
    /\ IF streamState = "readable"
       THEN /\ events' = Append(events, DoneEvent)
            /\ streamState' = "closed"
       ELSE UNCHANGED <<events, streamState>>
    /\ rpc' = "errored"
    /\ UNCHANGED <<endpoint, body, topK, candidates, ranked, response, calls,
                   received, cancelAt, status>>
    /\ ChunkerIdle
    /\ ClientIdle
    /\ StoreIdle

\* the generation stream throws while it is read: start() rejects, which errors
\* the response stream if it is still readable
StreamFail ==
    /\ rpc = "forwarding"
    /\ genState' = "failed"
    /\ streamState' = IF streamState = "readable" THEN "errored" ELSE streamState
    /\ rpc' = "errored"
    /\ UNCHANGED <<endpoint, body, topK, candidates, ranked, response, calls, events,
                   received, cancelAt, status>>
    /\ ChunkerIdle
    /\ ClientIdle
    /\ StoreIdle

\* no chunking is going on
ChunkerAtRest ==
    /\ file = [filePath |-> <<>>, extension |-> "", content |-> <<>>]
    /\ cpc = "idle"
    /\ pos = 0
    /\ chunks = <<>>
    /\ currentChunk = <<>>
    /\ currentType = "division"
    /\ currentName = "PREAMBLE"
    /\ currentDivision = ""
    /\ currentSection = ""
    /\ rawIdx = 0
    /\ wlines = <<>>
    /\ i = 0
    /\ result = <<>>
    /\ results = <<>>

\* a request has arrived at one of the two streaming endpoints
RequestInit ==
    /\ ChunkerAtRest
    /\ ClientAtRest
    /\ StoreAtRest
    /\ endpoint \in {"stream", "analyze"}
    /\ body \in Bodies(endpoint)
    /\ rpc = "received"
    /\ topK = 0
    /\ candidates = <<>>
    /\ ranked = <<>>
    /\ response = NoResponse
    /\ calls = <<>>
    /\ events = <<>>
    /\ streamState = "none"
    /\ genState = "none"
    /\ received = <<>>
    /\ cancelAt = -1
    /\ status = 0

RequestNext ==
    \/ BodyUnparseable
    \/ Reject
    \/ EmbedCall
    \/ SearchCall
    \/ UpstreamFail
    \/ SearchReturnFew
    \/ SearchReturnMany
    \/ GradeReturn
    \/ GateRefuse
    \/ GenerateCall
    \/ GenerateReturn
    \/ ClientCancel
    \/ ForwardChunk
    \/ StreamEnd
    \/ StreamFail

SpecRequest == RequestInit /\ [][RequestNext]_vars

(***************************************************************************)
(* rerankResults on its own: the candidates and topK are drawn, the        *)
(* function is called and returns.                                         *)
(***************************************************************************)
RerankTopKs == {-1, 0, 1, 2, TOP_K}

RerankFrame == UNCHANGED <<endpoint, body, topK, candidates, events, streamState, genState,
                           received, cancelAt, status>>

\* results.length <= topK: the candidates are returned as they are
RerankSkip ==
    /\ endpoint = "rerank" /\ rpc = "called"
    /\ NoGrading(candidates, topK)
    /\ ranked' = candidates
    /\ rpc' = "returned"
    /\ UNCHANGED <<response, calls>>
    /\ RerankFrame
    /\ ChunkerIdle
    /\ ClientIdle
    /\ StoreIdle

\* otherwise the grading call is issued and awaited
RerankAsk ==
    /\ endpoint = "rerank" /\ rpc = "called"
    /\ ~NoGrading(candidates, topK)
    /\ calls' = Append(calls, Call("chat", FALSE, body.query.s, 0))
    /\ rpc' = "grading"
    /\ UNCHANGED <<ranked, response>>
    /\ RerankFrame
    /\ ChunkerIdle
    /\ ClientIdle
    /\ StoreIdle

\* the grading call ends one way or another
RerankAnswer ==
    /\ endpoint = "rerank" /\ rpc = "grading"
    /\ \E resp \in Responses(Len(candidates)) :
          /\ response' = resp
          /\ ranked' = Reranked(candidates, topK, resp)
    /\ rpc' = "returned"
    /\ UNCHANGED calls
    /\ RerankFrame
    /\ ChunkerIdle
    /\ ClientIdle
    /\ StoreIdle

RerankInit ==
    /\ ChunkerAtRest
    /\ ClientAtRest
    /\ StoreAtRest
    /\ endpoint = "rerank"
    /\ body = [parseable |-> TRUE, query |-> JsString("q"), mode |-> JsUndefined,
               topK |-> JsUndefined]
    /\ rpc = "called"
    /\ topK \in RerankTopKs
    /\ candidates \in {CandidatesOf(ms) : ms \in MatchLists(MaxMatches)}
    /\ ranked = <<>>
    /\ response = NoResponse
    /\ calls = <<>>
    /\ events = <<>>
    /\ streamState = "none"
    /\ genState = "none"
    /\ received = <<>>
    /\ cancelAt = -1
    /\ status = 0

RerankNext ==
    \/ RerankSkip
    \/ RerankAsk
    \/ RerankAnswer

SpecRerank == RerankInit /\ [][RerankNext]_vars

(***************************************************************************)
(* The non-streaming callers of the retrieval pipeline: POST of /api/query *)
(* ("query", queryPipeline of src/lib/retrieval.ts) and runTestCase of     *)
(* scripts/evaluate.ts ("evaluate").  Both go through searchChunks.        *)
(***************************************************************************)
\* the modes of the evaluation's test cases: "general" holds no mode
EvalModeInputs == {JsUndefined, JsString("explain"), JsString("documentation")}

TestCases ==
    {[parseable |-> TRUE, query |-> JsString("q"), mode |-> m, topK |-> JsUndefined] :
        m \in EvalModeInputs}

\* the topK searchChunks is called with
\*   query:    typeof body.topK === "number" ? body.topK : undefined (so TOP_K)
\*   evaluate: modeConfig?.defaultTopK ?? 5
SearchTopK(ep, b) ==
    IF ep = "evaluate"
    THEN IF b.mode.t = "string" THEN defaultTopK(b.mode.s) ELSE 5
    ELSE IF b.topK.t = "number" THEN b.topK.n ELSE TOP_K

\* the query searchChunks is called with
\*   query:    the body's query
\*   evaluate: modeConfig?.queryPrefix ? `${modeConfig.queryPrefix} ${tc.query}` : tc.query
SearchText(ep, b) ==
    IF ep = "evaluate" /\ b.mode.t = "string" /\ queryPrefix(b.mode.s) # ""
    THEN queryPrefix(b.mode.s) \o " " \o b.query.s
    ELSE b.query.s

\* what the index answers a test case of the evaluation: up to MaxEvalMatches
\* matches of one similarity, so that a mode's defaultTopK can be exceeded
EvalMatchLists(fetchK) ==
    {[k \in 1..n |-> [hasScore |-> TRUE, score |-> 30]] :
        n \in 0..Min(Max(fetchK, 0), MaxEvalMatches)}

SearchMatchLists(ep, fetchK) ==
    IF ep = "evaluate" THEN EvalMatchLists(fetchK) ELSE MatchLists(fetchK)

PlainFrame == UNCHANGED <<endpoint, body, events, streamState, genState, received, cancelAt>>

\* req.json() throws: the catch block answers 500
PlainUnparseable ==
    /\ endpoint \in {"query", "file-context"} /\ rpc = "received"
    /\ ~body.parseable
    /\ rpc' = "responded"
    /\ status' = 500
    /\ UNCHANGED <<topK, candidates, ranked, response, calls>>
    /\ PlainFrame
    /\ ChunkerIdle
    /\ ClientIdle
    /\ StoreIdle

\* !query || typeof query !== "string": 400
PlainReject ==
    /\ endpoint = "query" /\ rpc = "received"
    /\ body.parseable
    /\ BadQuery(body)
    /\ rpc' = "responded"
    /\ status' = 400
    /\ UNCHANGED <<topK, candidates, ranked, response, calls>>
    /\ PlainFrame
    /\ ChunkerIdle
    /\ ClientIdle
    /\ StoreIdle

\* searchChunks(query, topK) is entered: openai.embeddings.create({input: query})
SearchChunksEmbed ==
    /\ endpoint \in {"query", "evaluate"} /\ rpc = "received"
    /\ body.parseable
    /\ ~BadQuery(body)
    /\ topK' = SearchTopK(endpoint, body)
    /\ calls' = Append(calls, Call("embeddings", FALSE, SearchText(endpoint, body), 0))
    /\ rpc' = "sc-embedding"
    /\ UNCHANGED <<candidates, ranked, response, status>>
    /\ PlainFrame
    /\ ChunkerIdle
    /\ ClientIdle
    /\ StoreIdle

\* the embedding arrives: index.query({topK: fetchK})
SearchChunksQuery ==
    /\ rpc = "sc-embedding"
    /\ calls' = Append(calls, Call("index", FALSE, "", topK * 2))
    /\ rpc' = "sc-searching"
    /\ UNCHANGED <<topK, candidates, ranked, response, status>>
    /\ PlainFrame
    /\ ChunkerIdle
    /\ ClientIdle
    /\ StoreIdle

\* the matches arrive; rerankResults(query, candidates, topK) returns them as
\* they are
SearchChunksFew ==
    /\ rpc = "sc-searching"
    /\ \E ms \in SearchMatchLists(endpoint, topK * 2) :
          /\ NoGrading(CandidatesOf(ms), topK)
          /\ candidates' = CandidatesOf(ms)
          /\ ranked' = candidates'
    /\ rpc' = "sc-returned"
    /\ UNCHANGED <<topK, response, calls, status>>
    /\ PlainFrame
    /\ ChunkerIdle
    /\ ClientIdle
    /\ StoreIdle

\* there are more than topK: rerankResults awaits the grading call, which is
\* given the query searchChunks was called with
SearchChunksMany ==
    /\ rpc = "sc-searching"
    /\ \E ms \in SearchMatchLists(endpoint, topK * 2) :
          /\ ~NoGrading(CandidatesOf(ms), topK)
          /\ candidates' = CandidatesOf(ms)
    /\ calls' = Append(calls, Call("chat", FALSE, SearchText(endpoint, body), 0))
    /\ rpc' = "sc-grading"
    /\ UNCHANGED <<topK, ranked, response, status>>
    /\ PlainFrame
    /\ ChunkerIdle
    /\ ClientIdle
    /\ StoreIdle

\* the grading call ends one way or another; searchChunks returns
SearchChunksGrade ==
    /\ rpc = "sc-grading"
    /\ \E resp \in Responses(Len(candidates)) :
          ranked' = Reranked(candidates, topK, resp)
    /\ rpc' = "sc-returned"
    /\ UNCHANGED <<topK, candidates, response, calls, status>>
    /\ PlainFrame
    /\ ChunkerIdle
    /\ ClientIdle
    /\ StoreIdle

\* generateAnswer(query, results) / generateWithMode(tc.query, ...): one
\* chat completion, not streamed, asked the caller's own query
AnswerCall ==
    /\ rpc = "sc-returned"
    /\ calls' = Append(calls, Call("chat", FALSE, body.query.s, 0))
    /\ rpc' = "answering"
    /\ UNCHANGED <<topK, candidates, ranked, response, status>>
    /\ PlainFrame
    /\ ChunkerIdle
    /\ ClientIdle
    /\ StoreIdle

\* the completion arrives: the JSON response (or the test case's result)
AnswerReturn ==
    /\ rpc = "answering"
    /\ rpc' = "responded"
    /\ status' = IF endpoint = "query" THEN 200 ELSE status
    /\ UNCHANGED <<topK, candidates, ranked, response, calls>>
    /\ PlainFrame
    /\ ChunkerIdle
    /\ ClientIdle
    /\ StoreIdle

\* an awaited collaborator call throws: the catch block of the route answers 500
PlainFail ==
    /\ endpoint \in {"query", "file-context"}
    /\ rpc \in {"sc-embedding", "sc-searching", "answering", "fc-searching"}
    /\ rpc' = "responded"
    /\ status' = 500
    /\ UNCHANGED <<topK, candidates, ranked, response, calls>>
    /\ PlainFrame
    /\ ChunkerIdle
    /\ ClientIdle
    /\ StoreIdle

(***************************************************************************)
(* POST of /api/file-context ("file-context").  A record of the index is   *)
(* [id, filePath, startLine]: its id and the metadata the lookup reads.    *)
(***************************************************************************)
FILE_CONTEXT_TOP_K == 200

OtherPath == <<"b", ".", "c">>

\* the index after the ingestion of a/p.c in n chunks (one per line) and of
\* b.c in one chunk
StoreOf(n) ==
    {[id |-> makeId(FixedPath, k), filePath |-> JoinChars(FixedPath), startLine |-> k] :
        k \in 1..n}
    \cup {[id |-> makeId(OtherPath, 1), filePath |-> JoinChars(OtherPath), startLine |-> 1]}

\* the numbers of chunks of a/p.c drawn
StoredCounts == {0, 1, 2, 3, FILE_CONTEXT_TOP_K, FILE_CONTEXT_TOP_K + 1}

Stores == {StoreOf(n) : n \in StoredCounts}

FilePathInputs == {JsUndefined, JsString(""), JsString(JoinChars(FixedPath)),
                   JsString("zz"), JsNumber(0), JsNumber(7)}

FileContextBodies ==
    {[parseable |-> TRUE, query |-> JsUndefined, mode |-> JsUndefined, topK |-> JsUndefined,
      filePath |-> f] : f \in FilePathInputs}
    \cup {[parseable |-> FALSE, query |-> JsUndefined, mode |-> JsUndefined,
           topK |-> JsUndefined, filePath |-> JsUndefined]}

\* !filePath
NoFilePath(b) ==
    \/ b.filePath.t = "undefined"
    \/ b.filePath.t = "string" /\ b.filePath.s = ""
    \/ b.filePath.t = "number" /\ b.filePath.n = 0

\* filter: { filePath: { $eq: filePath } }
MatchesFilter(r, f) == f.t = "string" /\ r.filePath = f.s

\* the records of a set, whose start lines differ, in ascending startLine
Ascending(S) ==
    LET before == [r \in S |-> Cardinality({q \in S : q.startLine < r.startLine})]
    IN [k \in 1..Cardinality(S) |-> CHOOSE r \in S : before[r] = k - 1]

Reverse(ls) == [k \in 1..Len(ls) |-> ls[Len(ls) + 1 - k]]

\* what index.query({vector: zeroVector, topK, filter}) may answer: at most
\* topK of the records that pass the filter, in an order of the index's choosing
LookupAnswers(store, f, k) ==
    LET hits == Ascending({r \in store : MatchesFilter(r, f)})
        n == Len(hits)
        kept == IF n <= k THEN {hits} ELSE {SubSeq(hits, 1, k), SubSeq(hits, n - k + 1, n)}
    IN kept \cup {Reverse(ls) : ls \in kept}

\* .sort((a, b) => a.startLine - b.startLine): a stable sort; an element goes
\* after those with a smaller startLine and those with the same one that came
\* before it
SortByStartLine(ls) ==
    LET n == Len(ls)
        place == [j \in 1..n |->
                    1 + Cardinality({k \in 1..n :
                                        \/ ls[k].startLine < ls[j].startLine
                                        \/ ls[k].startLine = ls[j].startLine /\ k < j})]
    IN [p \in 1..n |-> ls[CHOOSE j \in 1..n : place[j] = p]]

\* if (!filePath): 400
FileContextReject ==
    /\ endpoint = "file-context" /\ rpc = "received"
    /\ body.parseable
    /\ NoFilePath(body)
    /\ rpc' = "responded"
    /\ status' = 400
    /\ UNCHANGED <<topK, candidates, ranked, response, calls>>
    /\ PlainFrame
    /\ ChunkerIdle
    /\ ClientIdle
    /\ StoreIdle

\* index.query({vector: zeroVector, topK: 200, filter}) is awaited
FileContextQuery ==
    /\ endpoint = "file-context" /\ rpc = "received"
    /\ body.parseable
    /\ ~NoFilePath(body)
    /\ calls' = Append(calls, Call("index", FALSE,
                                   IF body.filePath.t = "string" THEN body.filePath.s
                                   ELSE ToString(body.filePath.n),
                                   FILE_CONTEXT_TOP_K))
    /\ rpc' = "fc-searching"
    /\ UNCHANGED <<topK, candidates, ranked, response, status>>
    /\ PlainFrame
    /\ ChunkerIdle
    /\ ClientIdle
    /\ StoreIdle

\* the matches arrive, are mapped to chunks and sorted: NextResponse.json({chunks})
FileContextReturn ==
    /\ endpoint = "file-context" /\ rpc = "fc-searching"
    /\ \E ms \in LookupAnswers(index, body.filePath, FILE_CONTEXT_TOP_K) :
          served' = SortByStartLine(ms)
    /\ rpc' = "responded"
    /\ status' = 200
    /\ UNCHANGED <<topK, candidates, ranked, response, calls>>
    /\ PlainFrame
    /\ ChunkerIdle
    /\ ClientIdle
    /\ UNCHANGED <<index, script, ipc, files, fileIdx, allChunks, allEmbeddings, upserted,
                   runs, embedCalls, upsertCalls, inflight>>

(***************************************************************************)
(* One request or test case at any of the callers of the pipeline.         *)
(***************************************************************************)
PipelineInit ==
    /\ ChunkerAtRest
    /\ ClientAtRest
    /\ endpoint \in {"stream", "analyze", "query", "evaluate", "file-context"}
    /\ body \in CASE endpoint = "evaluate" -> TestCases
                  [] endpoint = "file-context" -> FileContextBodies
                  [] OTHER -> Bodies(endpoint)
    /\ index \in IF endpoint = "file-context" THEN Stores ELSE {{}}
    /\ served = <<>>
    /\ script = "none"
    /\ ipc = "idle"
    /\ files = <<>>
    /\ fileIdx = 0
    /\ allChunks = <<>>
    /\ allEmbeddings = <<>>
    /\ upserted = 0
    /\ runs = 0
    /\ embedCalls = <<>>
    /\ upsertCalls = <<>>
    /\ inflight = 0
    /\ rpc = "received"
    /\ topK = 0
    /\ candidates = <<>>
    /\ ranked = <<>>
    /\ response = NoResponse
    /\ calls = <<>>
    /\ events = <<>>
    /\ streamState = "none"
    /\ genState = "none"
    /\ received = <<>>
    /\ cancelAt = -1
    /\ status = 0

PipelineNext ==
    \/ RequestNext
    \/ PlainUnparseable
    \/ PlainReject
    \/ SearchChunksEmbed
    \/ SearchChunksQuery
    \/ SearchChunksFew
    \/ SearchChunksMany
    \/ SearchChunksGrade
    \/ AnswerCall
    \/ AnswerReturn
    \/ PlainFail
    \/ FileContextReject
    \/ FileContextQuery
    \/ FileContextReturn

SpecPipeline == PipelineInit /\ [][PipelineNext]_vars

(***************************************************************************)
(* The ingestion scripts: scripts/ingest.ts ("ingest") and the benchmark   *)
(* script ("benchmark"), both ending in embedAndUpsert of                  *)
(* scripts/lib/embedder.ts.  The codebase holds a/p.c, b.c or both, and    *)
(* changes between runs; chunkFile runs as the chunker actions above.      *)
(***************************************************************************)
EMBED_BATCH_SIZE == 100
UPSERT_BATCH_SIZE == 100

IngestTexts == {TxtHalf, TxtFull}

FileA(c) == [filePath |-> FixedPath, extension |-> ".c", content |-> c]
FileB == [filePath |-> OtherPath, extension |-> ".c", content |-> <<TxtHalf>>]
\* a_p.c, a file of the root directory next to the directory a
TwinPath == <<"a", "_", "p", ".", "c">>
FileC == [filePath |-> TwinPath, extension |-> ".c", content |-> <<TxtHalf>>]

\* what discoverFiles may find: never nothing (the script exits on no file)
Codebases ==
    {<<FileA(c)>> : c \in SeqsUpTo(IngestTexts, MaxIngestLines)}
    \cup {<<FileA(c), FileB>> : c \in SeqsUpTo(IngestTexts, MaxIngestLines)}
    \cup {<<FileA(c), FileC>> : c \in SeqsUpTo(IngestTexts, MaxIngestLines)}
    \cup {<<FileB>>}

\* the record index.upsert stores for a chunk: its id and metadata
RecordOf(c) == [id |-> c.id, filePath |-> JoinChars(c.filePath), startLine |-> c.startLine]

RecordsOf(cs) == {RecordOf(cs[k]) : k \in 1..Len(cs)}

\* index.upsert({records}): a record replaces the one of the same id, in the
\* store and earlier in the same call
Upserted(store, batch) ==
    {r \in store : \A k \in 1..Len(batch) : batch[k].id # r.id}
    \cup {RecordOf(batch[k]) :
            k \in {j \in 1..Len(batch) :
                     \A l \in (j + 1)..Len(batch) : batch[l].id # batch[j].id}}

IngestFrame == UNCHANGED <<served, requestVars>>

ChunkerRests ==
    /\ file' = [filePath |-> <<>>, extension |-> "", content |-> <<>>]
    /\ cpc' = "idle"
    /\ wlines' = <<>>
    /\ i' = 0
    /\ result' = <<>>
    /\ results' = <<>>
    /\ UNCHANGED <<pos, chunks, currentChunk, currentType, currentName, currentDivision,
                   currentSection, rawIdx>>

\* ingest(): discoverFiles; nothing is done to the index before
IngestDiscover ==
    /\ ipc \in {"idle", "done"}
    /\ runs < MaxRuns
    /\ script' = "ingest"
    /\ files' \in Codebases
    /\ fileIdx' = 0
    /\ allChunks' = <<>>
    /\ allEmbeddings' = <<>>
    /\ upserted' = 0
    /\ embedCalls' = <<>>
    /\ upsertCalls' = <<>>
    /\ UNCHANGED inflight
    /\ ipc' = "chunking"
    /\ UNCHANGED <<index, runs>>
    /\ ChunkerIdle
    /\ ClientIdle
    /\ IngestFrame

\* benchmark(): await index.deleteAll()
BenchmarkWipe ==
    /\ ipc \in {"idle", "done"}
    /\ runs < MaxRuns
    /\ script' = "benchmark"
    /\ index' = {}
    /\ files' = <<>>
    /\ fileIdx' = 0
    /\ allChunks' = <<>>
    /\ allEmbeddings' = <<>>
    /\ upserted' = 0
    /\ embedCalls' = <<>>
    /\ upsertCalls' = <<>>
    /\ UNCHANGED inflight
    /\ ipc' = "wiped"
    /\ UNCHANGED runs
    /\ ChunkerIdle
    /\ ClientIdle
    /\ IngestFrame

\* benchmark(): discoverFiles
BenchmarkDiscover ==
    /\ ipc = "wiped"
    /\ files' \in Codebases
    /\ ipc' = "chunking"
    /\ UNCHANGED <<index, script, fileIdx, allChunks, allEmbeddings, upserted, runs,
                   embedCalls, upsertCalls, inflight>>
    /\ ChunkerIdle
    /\ ClientIdle
    /\ IngestFrame

\* for (const file of files): chunkFile(file) is entered
ChunkNextFile ==
    /\ ipc = "chunking"
    /\ cpc = "idle"
    /\ fileIdx < Len(files)
    /\ file' = files[fileIdx + 1]
    /\ cpc' = "window"
    /\ wlines' = LinesOf(files[fileIdx + 1])
    /\ i' = 0
    /\ result' = <<>>
    /\ results' = <<>>
    /\ UNCHANGED <<pos, chunks, currentChunk, currentType, currentName, currentDivision,
                   currentSection, rawIdx>>
    /\ UNCHANGED storeVars
    /\ UNCHANGED requestVars
    /\ ClientIdle

\* chunkFile has returned: allChunks.push(...chunks); after the last file
\* embedAndUpsert(allChunks) is entered
CollectChunks ==
    /\ ipc = "chunking"
    /\ cpc = "done"
    /\ allChunks' = allChunks \o results
    /\ fileIdx' = fileIdx + 1
    /\ ipc' = IF fileIdx + 1 = Len(files) THEN "embedding" ELSE "chunking"
    /\ ChunkerRests
    /\ ClientIdle
    /\ UNCHANGED <<index, script, files, allEmbeddings, upserted, runs, embedCalls,
                   upsertCalls, inflight>>
    /\ IngestFrame

\* buildEmbeddingInput(chunk): the parts joined, programId and parentSection
\* only when truthy
Truthiness(x) == x # Undefined /\ x # ""

buildEmbeddingInput(c) ==
    (IF Truthiness(c.programId) THEN <<(<<"Program", c.programId>>)>> ELSE <<>>)
    \o (IF Truthiness(c.parentSection) THEN <<(<<"Section", c.parentSection>>)>> ELSE <<>>)
    \o <<(<<c.chunkType, c.name>>),
         (<<"File", c.filePath, c.startLine, c.endLine>>),
         (<<"content", c.content>>)>>

\* const texts = chunks.map(buildEmbeddingInput)
Texts == [k \in 1..Len(allChunks) |-> buildEmbeddingInput(allChunks[k])]

\* the embedding the service computes for a text
Embedding(text) == [of |-> text]

\* embedBatch(texts): response.data.map((d) => d.embedding), the service
\* answering with one embedding per input, in the order of the inputs
embedBatch(batch) == [k \in 1..Len(batch) |-> Embedding(batch[k])]

\* mutant: values: allEmbeddings[j], the batch offset is forgotten
VectorsOfBatchOffset(from, to) ==
    [j \in 1..(to - from) |->
        [id |-> allChunks[from + j].id, values |-> allEmbeddings[j]]]

\* batch.map((chunk, j) => ({id: chunk.id, values: allEmbeddings[i + j], ...}))
\* for the chunks from + 1 .. to (1-based)
VectorsOf(from, to) ==
    [j \in 1..(to - from) |->
        [id |-> allChunks[from + j].id, values |-> allEmbeddings[from + j]]]

\* one iteration of the embedding loop, up to the await: texts.slice(i, i +
\* EMBED_BATCH_SIZE) is sent to the embedding service
EmbedBatch ==
    /\ ipc = "embedding"
    /\ Len(embedCalls) * EMBED_BATCH_SIZE < Len(allChunks)
    /\ LET from == Len(embedCalls) * EMBED_BATCH_SIZE
           to == Min(from + EMBED_BATCH_SIZE, Len(allChunks))
       IN embedCalls' = Append(embedCalls, SubSeq(Texts, from + 1, to))
    /\ inflight' = inflight + 1
    /\ ipc' = "embed-wait"
    /\ UNCHANGED <<index, script, files, fileIdx, allChunks, allEmbeddings, upserted, runs,
                   upsertCalls>>
    /\ ChunkerIdle
    /\ ClientIdle
    /\ IngestFrame

\* the call returns: allEmbeddings.push(...embeddings); the loop goes on or
\* the upsert loop starts
EmbedBatchReturn ==
    /\ ipc = "embed-wait"
    /\ allEmbeddings' = allEmbeddings \o embedBatch(embedCalls[Len(embedCalls)])
    /\ inflight' = inflight - 1
    /\ ipc' = IF Len(embedCalls) * EMBED_BATCH_SIZE < Len(allChunks)
              THEN "embedding" ELSE "upserting"
    /\ UNCHANGED <<index, script, files, fileIdx, allChunks, upserted, runs, embedCalls,
                   upsertCalls>>
    /\ ChunkerIdle
    /\ ClientIdle
    /\ IngestFrame

\* the call throws: embedAndUpsert has no catch, the script ends
EmbedBatchThrow ==
    /\ ipc = "embed-wait"
    /\ inflight' = inflight - 1
    /\ ipc' = "failed"
    /\ UNCHANGED <<index, script, files, fileIdx, allChunks, allEmbeddings, upserted, runs,
                   embedCalls, upsertCalls>>
    /\ ChunkerIdle
    /\ ClientIdle
    /\ IngestFrame

\* one iteration of the upsert loop, up to the await:
\* index.upsert({records: vectors}) is sent
UpsertBatch ==
    /\ ipc = "upserting"
    /\ upserted < Len(allChunks)
    /\ LET to == Min(upserted + UPSERT_BATCH_SIZE, Len(allChunks))
       IN upsertCalls' = Append(upsertCalls, VectorsOf(upserted, to))
    /\ inflight' = inflight + 1
    /\ ipc' = "upsert-wait"
    /\ UNCHANGED <<index, script, files, fileIdx, allChunks, allEmbeddings, upserted, runs,
                   embedCalls>>
    /\ ChunkerIdle
    /\ ClientIdle
    /\ IngestFrame

\* the call returns, the records are stored; after the last batch the script
\* ends
UpsertBatchReturn ==
    /\ ipc = "upsert-wait"
    /\ LET to == Min(upserted + UPSERT_BATCH_SIZE, Len(allChunks))
       IN /\ index' = Upserted(index, SubSeq(allChunks, upserted + 1, to))
          /\ upserted' = to
          /\ ipc' = IF to < Len(allChunks) THEN "upserting" ELSE "done"
          /\ runs' = IF to < Len(allChunks) THEN runs ELSE runs + 1
    /\ inflight' = inflight - 1
    /\ UNCHANGED <<script, files, fileIdx, allChunks, allEmbeddings, embedCalls,
                   upsertCalls>>
    /\ ChunkerIdle
    /\ ClientIdle
    /\ IngestFrame

\* the call throws: the script ends, the batch is not stored
UpsertBatchThrow ==
    /\ ipc = "upsert-wait"
    /\ inflight' = inflight - 1
    /\ ipc' = "failed"
    /\ UNCHANGED <<index, script, files, fileIdx, allChunks, allEmbeddings, upserted, runs,
                   embedCalls, upsertCalls>>
    /\ ChunkerIdle
    /\ ClientIdle
    /\ IngestFrame

IngestInit ==
    /\ ChunkerAtRest
    /\ ClientAtRest
    /\ RequestIdle
    /\ StoreAtRest

IngestNext ==
    \/ IngestDiscover
    \/ BenchmarkWipe
    \/ BenchmarkDiscover
    \/ ChunkNextFile
    \/ WindowStep
    \/ FixedReturn
    \/ CollectChunks
    \/ EmbedBatch
    \/ EmbedBatchReturn
    \/ UpsertBatch
    \/ UpsertBatchReturn

SpecIngest == IngestInit /\ [][IngestNext]_vars

(***************************************************************************)
(* embedAndUpsert on its own: the chunks are drawn, the function is called *)
(* and returns or throws.                                                  *)
(***************************************************************************)
\* what chunkFixedSize makes of line k of a file whose lines each fill a window
EmbedChunk(k) ==
    [id |-> makeId(FixedPath, k),
     content |-> <<TxtFull>>,
     filePath |-> FixedPath,
     startLine |-> k,
     endLine |-> k,
     chunkType |-> "fixed",
     name |-> PartName(JoinChars(FixedPath), k),
     parentSection |-> Undefined,
     programId |-> Undefined]

EmbedInputs == {[k \in 1..n |-> EmbedChunk(k)] : n \in 1..MaxEmbedChunks}

EmbedInit ==
    /\ ChunkerAtRest
    /\ ClientAtRest
    /\ RequestIdle
    /\ index = {}
    /\ served = <<>>
    /\ script = "ingest"
    /\ ipc = "embedding"
    /\ allChunks \in EmbedInputs
    /\ files = <<FileA([k \in 1..Len(allChunks) |-> TxtFull])>>
    /\ fileIdx = 1
    /\ allEmbeddings = <<>>
    /\ upserted = 0
    /\ runs = 0
    /\ embedCalls = <<>>
    /\ upsertCalls = <<>>
    /\ inflight = 0

EmbedNext ==
    \/ EmbedBatch
    \/ EmbedBatchReturn
    \/ EmbedBatchThrow
    \/ UpsertBatch
    \/ UpsertBatchReturn
    \/ UpsertBatchThrow

SpecEmbed == EmbedInit /\ [][EmbedNext]_vars

RECURSIVE Flatten(_)
Flatten(batches) ==
    IF batches = <<>> THEN <<>> ELSE Head(batches) \o Flatten(Tail(batches))

\* the texts sent to the embedding service and the records sent to the index,
\* each in the order sent
EmbeddedTexts == Flatten(embedCalls)
UpsertedVectors == Flatten(upsertCalls)

\* C26 (batched ingestion): embedAndUpsert sends the embedding service at most
\* EMBED_BATCH_SIZE texts and the index at most UPSERT_BATCH_SIZE records per
\* call, with never more than one call unanswered; the texts sent are the
\* chunks' texts in order, each once, and so are the records; the vector sent
\* under chunk k's id is the embedding returned for chunk k's own text; and no
\* upsert is sent before every embedding batch has returned.
C26_BatchedIngestion ==
    /\ \A b \in 1..Len(embedCalls) :
          Len(embedCalls[b]) \in 1..EMBED_BATCH_SIZE
    /\ \A b \in 1..Len(upsertCalls) :
          Len(upsertCalls[b]) \in 1..UPSERT_BATCH_SIZE
    /\ inflight \in {0, 1}
    /\ Len(EmbeddedTexts) <= Len(allChunks)
    /\ EmbeddedTexts = SubSeq(Texts, 1, Len(EmbeddedTexts))
    /\ Len(UpsertedVectors) <= Len(allChunks)
    /\ \A k \in 1..Len(UpsertedVectors) :
          /\ UpsertedVectors[k].id = allChunks[k].id
          /\ UpsertedVectors[k].values = Embedding(buildEmbeddingInput(allChunks[k]))
    /\ upsertCalls # <<>> =>
          /\ Len(EmbeddedTexts) = Len(allChunks)
          /\ Len(allEmbeddings) = Len(allChunks)
          /\ ipc \notin {"embedding", "embed-wait"}
    /\ ipc = "done" =>
          /\ Len(UpsertedVectors) = Len(allChunks)
          /\ inflight = 0

\* a run over more than two full batches has ended
C26_Witness ==
    /\ ipc = "done"
    /\ script = "ingest"
    /\ Len(allChunks) > 2 * EMBED_BATCH_SIZE
    /\ Len(embedCalls) = 3
    /\ Len(upsertCalls) = 3
    /\ Len(upsertCalls[3]) = 1

\* the records of the index written by the run at hand
WrittenByRun == {r \in index : \E k \in 1..Len(allChunks) : r.id = allChunks[k].id}

\* C27 (id uniqueness): two chunks of one ingestion run that differ in filePath
\* or in startLine never have the same id, and when the run has ended the
\* number of records it wrote equals the number of its chunks.
C27_IdUniqueness ==
    /\ \A a, b \in 1..Len(allChunks) :
          (\/ allChunks[a].filePath # allChunks[b].filePath
           \/ allChunks[a].startLine # allChunks[b].startLine)
          => allChunks[a].id # allChunks[b].id
    /\ ipc = "done" => Cardinality(WrittenByRun) = Len(allChunks)

\* C20 (full rebuild): when an ingestion run has ended, the index holds
\* exactly the records of the chunks of that run's documents; nothing an
\* earlier run wrote survives.
C20_FullRebuild == ipc = "done" => index = RecordsOf(allChunks)

(***************************************************************************)
(* The web client (app/page.tsx): runQuery and what starts it.             *)
(* A response stream reaches the page as whole events, one or more per     *)
(* read; the events of query q carry q in their results and contents.      *)
(***************************************************************************)
\* the text of the n-th token event of the stream that answers query q
TokenText(q, n) == "<" \o ToString(q) \o "." \o ToString(n) \o ">"

TokensOf(q, m) == [n \in 1..m |-> TokenEvent(TokenText(q, n))]

\* what the server may answer to the fetch of query q: a rejected fetch, a
\* response that is not ok, or a stream of sources, tokens and done that is
\* closed after done or errors before it
ServerAnswers(q) ==
    {[outcome |-> o, unread |-> <<>>, ending |-> "none"] : o \in {"throws", "notok"}}
    \cup {[outcome |-> "ok",
           unread |-> <<SourcesEvent(<<q>>)>> \o TokensOf(q, m) \o <<DoneEvent>>,
           ending |-> "closed"] : m \in 0..MaxTokens}
    \cup {[outcome |-> "ok",
           unread |-> <<SourcesEvent(<<q>>)>> \o TokensOf(q, m),
           ending |-> "errored"] : m \in 0..MaxTokens}

\* the state the loop body at lines 117-124 leaves after event e
ApplyEvent(st, e) ==
    CASE e.type = "sources" -> [st EXCEPT !.results = e.results, !.isLoading = FALSE]
      [] e.type = "token"   -> [st EXCEPT !.answer = st.answer \o e.content]
      [] e.type = "done"    -> [st EXCEPT !.latencyMs = "set"]
      [] OTHER              -> st

\* for (const line of lines): the events of one read, in order
RECURSIVE ApplyEvents(_, _)
ApplyEvents(st, es) ==
    IF es = <<>> THEN st ELSE ApplyEvents(ApplyEvent(st, Head(es)), Tail(es))

\* runQuery up to its first await: the state is reset and the fetch is sent
RunQueryEntry(via) ==
    /\ Len(queries) < MaxQueries
    /\ isLoading' = TRUE
    /\ isStreaming' = TRUE
    /\ shownResults' = <<>>
    /\ answer' = ""
    /\ latencyMs' = "null"
    /\ error' = "null"
    /\ \E a \in ServerAnswers(Len(queries) + 1) :
          queries' = Append(queries,
                        [via |-> via, pc |-> "fetching", outcome |-> a.outcome,
                         unread |-> a.unread, ending |-> a.ending])

ServerIdle ==
    /\ UNCHANGED chunkerVars
    /\ UNCHANGED requestVars
    /\ UNCHANGED storeVars

\* SearchInput.handleSubmit: if (trimmed && !isLoading) onSearch(trimmed);
\* handleSearch calls runQuery
HandleSubmit ==
    /\ ~isLoading
    /\ RunQueryEntry("submit")
    /\ ServerIdle

\* the effects on mount and on back/forward navigation: the URL names a query
\* other than the active one, runQuery is called
HandleNavigation ==
    /\ RunQueryEntry("navigation")
    /\ ServerIdle

\* await fetch(...) ends for query q: a stream to read, or an error that the
\* catch and finally blocks handle
FetchReturn(q) ==
    /\ queries[q].pc = "fetching"
    /\ IF queries[q].outcome = "ok"
       THEN /\ queries' = [queries EXCEPT ![q].pc = "reading"]
            /\ UNCHANGED <<error, isLoading, isStreaming>>
       ELSE /\ queries' = [queries EXCEPT ![q].pc = "finished"]
            /\ error' = "message"
            /\ isLoading' = FALSE
            /\ isStreaming' = FALSE
    /\ UNCHANGED <<answer, shownResults, latencyMs>>
    /\ ServerIdle

\* await reader.read() delivers events to query q's loop
ReadEvents(q) ==
    /\ queries[q].pc = "reading"
    /\ queries[q].unread # <<>>
    /\ \E n \in 1..Min(MaxReadEvents, Len(queries[q].unread)) :
          LET st == ApplyEvents([results |-> shownResults, answer |-> answer,
                                 isLoading |-> isLoading, latencyMs |-> latencyMs],
                                SubSeq(queries[q].unread, 1, n))
          IN /\ shownResults' = st.results
             /\ answer' = st.answer
             /\ isLoading' = st.isLoading
             /\ latencyMs' = st.latencyMs
             /\ queries' = [queries EXCEPT
                              ![q].unread = SubSeq(queries[q].unread, n + 1,
                                                   Len(queries[q].unread))]
    /\ UNCHANGED <<isStreaming, error>>
    /\ ServerIdle

\* await reader.read() reports done, or rejects: break or catch, then finally
ReadEnd(q) ==
    /\ queries[q].pc = "reading"
    /\ queries[q].unread = <<>>
    /\ queries' = [queries EXCEPT ![q].pc = "finished"]
    /\ error' = IF queries[q].ending = "errored" THEN "message" ELSE error
    /\ isLoading' = FALSE
    /\ isStreaming' = FALSE
    /\ UNCHANGED <<answer, shownResults, latencyMs>>
    /\ ServerIdle

ClientInit ==
    /\ ChunkerAtRest
    /\ RequestIdle
    /\ StoreAtRest
    /\ ClientAtRest

ClientNext ==
    \/ HandleSubmit
    \/ HandleNavigation
    \/ \E q \in 1..Len(queries) : FetchReturn(q)
    \/ \E q \in 1..Len(queries) : ReadEvents(q)
    \/ \E q \in 1..Len(queries) : ReadEnd(q)

SpecClient == ClientInit /\ [][ClientNext]_vars

(***************************************************************************)
(* Properties of the request handlers                                      *)
(***************************************************************************)
EventTypes == [k \in 1..Len(events) |-> events[k].type]

\* C2 (stream event protocol): the events of a response stream are one sources
\* event first, then token events only, then at most one done event, which is
\* the last event and leaves the stream closed; a stream whose production has
\* completed without error ends with that done event.
C2_StreamProtocol ==
    /\ Len(events) >= 1 => events[1].type = "sources"
    /\ \A k \in 2..Len(events) : events[k].type \in {"token", "done"}
    /\ \A k \in 1..(Len(events) - 1) : events[k].type # "done"
    /\ (Len(events) >= 1 /\ events[Len(events)].type = "done") => streamState = "closed"
    /\ rpc = "closed" =>
          /\ Len(events) >= 2
          /\ events[Len(events)].type = "done"
          /\ streamState = "closed"

\* a general answer stream that completed with two token events
C2_Witness ==
    /\ endpoint = "stream"
    /\ rpc = "closed"
    /\ EventTypes = <<"sources", "token", "token", "done">>

\* the first results.slice(0, topK) candidates, untouched
FirstTopK == SubSeq(candidates, 1, Min(topK, Len(candidates)))

\* the grading call failed or what it returned is malformed
FailedOrMalformed(resp) ==
    \/ resp.kind \in {"throws", "nocontent", "badjson", "notlist"}
    \/ /\ resp.kind = "list"
       /\ \E k \in 1..Len(resp.scores) : resp.scores[k].kind # "pair"

\* C3 (rerank fallback): with more than topK candidates (topK >= 1) and a
\* grading call that failed or returned malformed data, rerankResults returns
\* the first topK candidates in their order, none carrying a rerankScore.
C3_RerankFallback ==
    (/\ endpoint = "rerank" /\ rpc = "returned"
     /\ topK >= 1
     /\ Len(candidates) > topK
     /\ FailedOrMalformed(response))
    => /\ ranked = FirstTopK
       /\ \A k \in 1..Len(ranked) : ~ranked[k].reranked

\* the gate as the specification states it
PassesAsSpecified(rs) ==
    /\ rs # <<>>
    /\ rs[1].reranked => rs[1].rerankScore >= 3
    /\ ~rs[1].reranked => rs[1].score >= 30

\* the analysis handler is past its quality gate
GateDecided ==
    /\ endpoint = "analyze"
    /\ \/ rpc \in {"closed", "generating", "forwarding", "errored"}
       \/ rpc = "responded" /\ genState = "failed"

GenerationRequested == \E k \in 1..Len(calls) : calls[k].svc = "chat" /\ calls[k].stream

\* C4 (quality gate decision): an analysis request goes on to generation iff
\* the final result list is non-empty and its first element has rerankScore >= 3
\* when it carries one, similarity >= 0.30 when it carries none.
C4_GateDecision == GateDecided => (GenerationRequested <=> PassesAsSpecified(ranked))

\* the gate passed on a top rerank score of exactly 3
C4_Witness ==
    /\ GateDecided
    /\ GenerationRequested
    /\ Len(ranked) >= 2
    /\ ranked[1].reranked
    /\ ranked[1].rerankScore = 3

\* C5 (gate-failure stream): when the gate fails the response stream is
\* sources(empty), token(refusal text), done, then closed, and no streaming
\* generation request was issued.
C5_GateFailureStream ==
    (GateDecided /\ ~PassesAsSpecified(ranked)) =>
        /\ events = <<SourcesEvent(<<>>), TokenEvent(NO_RESULTS_MESSAGE), DoneEvent>>
        /\ streamState = "closed"
        /\ rpc = "closed"
        /\ ~GenerationRequested

\* the gate failed on a rerank score
C5_Witness ==
    /\ GateDecided
    /\ ranked # <<>>
    /\ ranked[1].reranked
    /\ ranked[1].rerankScore = 2
    /\ rpc = "closed"

\* C6 (cancellation): once the client has cancelled while the generation stream
\* was still delivering chunks, that stream is not read to its end.
C6_Cancellation ==
    (cancelAt >= 0 /\ Len(received) > cancelAt) => genState # "exhausted"

\* the failure of the generation stream came after the sources event went out
FailedMidStream == genState = "failed" /\ events # <<>>

\* C13 (mid-stream failure): once the generation stream has failed after the
\* sources event was emitted, the response stream holds no done event, is
\* terminated (errored, or cancelled by the client before) and the handler has
\* stopped; from then on no event at all is added to it.
C13_MidStreamFailure ==
    /\ [](FailedMidStream =>
            /\ \A k \in 1..Len(events) : events[k].type # "done"
            /\ streamState \in {"errored", "cancelled"}
            /\ rpc = "errored")
    /\ [][FailedMidStream => events' = events]_vars

\* the generation stream failed after one token had been forwarded
C13_Witness ==
    /\ FailedMidStream
    /\ EventTypes = <<"sources", "token">>
    /\ streamState = "errored"

\* the gate of an analysis request has failed
GateFailed == GateDecided /\ ~PassesAsSpecified(ranked)

\* the calls made to the generation service (chat completions), grading included
GenerationServiceCalls == SelectSeq(calls, LAMBDA c : c.svc = "chat")

\* C14, as stated (zero generation cost on gate failure): over the handling of
\* an analysis request whose gate fails, no call at all is made to the
\* generation service, also when the failing top score is a rerank score.
C14_ZeroGenerationCalls == GateFailed => Len(GenerationServiceCalls) = 0

\* C14, amended: when the gate fails no answer generation is requested; the
\* only call to the generation service is the one grading call of the reranker,
\* made exactly when more than topK candidates were retrieved, so a failing
\* top score that is a rerank score has cost exactly one call.
C14_GateFailureCost ==
    GateFailed =>
        /\ \A k \in 1..Len(calls) : ~(calls[k].svc = "chat" /\ calls[k].stream)
        /\ Len(GenerationServiceCalls) = IF Len(candidates) > topK THEN 1 ELSE 0
        /\ (ranked # <<>> /\ ranked[1].reranked) => Len(GenerationServiceCalls) = 1

\* the gate failed on rerank scores, two results kept, one grading call made
C14_Witness ==
    /\ GateFailed
    /\ Len(ranked) = 2
    /\ ranked[1].reranked
    /\ ranked[1].rerankScore < 3
    /\ Len(GenerationServiceCalls) = 1
    /\ events = RefusalEvents

(***************************************************************************)
(* Properties of rerankResults                                             *)
(***************************************************************************)
\* rerankResults has returned
RerankReturned == endpoint = "rerank" /\ rpc = "returned"

\* the grading response is a list of numeric {index, score} pairs
ValidList(resp) ==
    /\ resp.kind = "list"
    /\ \A k \in 1..Len(resp.scores) : resp.scores[k].kind = "pair"

\* the scores the response gives for candidate index idx
ResponseScores(resp, idx) ==
    {resp.scores[k].score : k \in {j \in 1..Len(resp.scores) : resp.scores[j].index = idx}}

\* the scores candidate index idx may be given: the response's, or 0 if none
AssignedScores(resp, idx) ==
    IF ResponseScores(resp, idx) = {} THEN {0} ELSE ResponseScores(resp, idx)

\* the original positions (1-based) of the results
KeptPositions == {ranked[k].chunk : k \in 1..Len(ranked)}

\* C16 (rerank ordering): with more than topK candidates (topK >= 0) and a
\* grading response that is a valid list, the result has exactly topK elements,
\* each one of the candidates carrying as rerankScore the response's score for
\* its index (0 if the response has none); the result is in descending score
\* order with equal scores in original order, and no candidate left out would
\* come before a kept one in that order.
C16_RerankOrdering ==
    (/\ RerankReturned
     /\ topK >= 0
     /\ Len(candidates) > topK
     /\ ValidList(response))
    => /\ Len(ranked) = topK
       /\ \A k \in 1..Len(ranked) :
             /\ ranked[k].chunk \in 1..Len(candidates)
             /\ ranked[k].score = candidates[ranked[k].chunk].score
             /\ ranked[k].reranked
             /\ ranked[k].rerankScore \in AssignedScores(response, ranked[k].chunk - 1)
       /\ \A a, b \in 1..Len(ranked) :
             a < b => \/ ranked[a].rerankScore > ranked[b].rerankScore
                      \/ /\ ranked[a].rerankScore = ranked[b].rerankScore
                         /\ ranked[a].chunk < ranked[b].chunk
       /\ \A j \in (1..Len(candidates)) \ KeptPositions :
             \A k \in 1..Len(ranked) :
                \E x \in AssignedScores(response, j - 1) :
                   \/ x < ranked[k].rerankScore
                   \/ x = ranked[k].rerankScore /\ j > ranked[k].chunk

\* three candidates, topK 2: the first has no entry and drops out, the other
\* two tie on score 3 and keep their order
C16_Witness ==
    /\ RerankReturned
    /\ topK = 2
    /\ Len(candidates) = 3
    /\ ValidList(response)
    /\ Len(ranked) = 2
    /\ ranked[1].chunk = 2 /\ ranked[1].rerankScore = 3
    /\ ranked[2].chunk = 3 /\ ranked[2].rerankScore = 3

QueryEndpoints == {"stream", "analyze", "query", "evaluate"}

IndexCalls == {k \in 1..Len(calls) : calls[k].svc = "index"}

\* C29 (effective topK): on every query endpoint the value passed to the
\* vector index is 2 x topK for a positive integer topK, the topK the reranker
\* truncates to is that positive integer, and the final result list never has
\* more than topK elements; a zero or negative topK of the request never
\* reaches a collaborator.
C29_EffectiveTopK ==
    (endpoint \in QueryEndpoints /\ IndexCalls # {}) =>
        /\ \A k \in IndexCalls : calls[k].topK = 2 * topK
        /\ topK >= 1
        /\ Len(ranked) <= topK

\* C21 (rerank score range): when rerankResults has returned, every rerankScore
\* it attached is an integer from 0 to 10, whatever numeric scores the grading
\* response holds, and a result without rerankScore occurs only when the
\* reranker was skipped or its grading call failed or was malformed.
C21_RerankScoreRange ==
    RerankReturned =>
        /\ \A k \in 1..Len(ranked) :
              ranked[k].reranked => ranked[k].rerankScore \in 0..10
        /\ (\E k \in 1..Len(ranked) : ~ranked[k].reranked) =>
              \/ NoGrading(candidates, topK)
              \/ FailedOrMalformed(response)

\* C17 (rerank passthrough): with no more candidates than topK, rerankResults
\* returns the candidate list as it is, no element carrying a rerankScore, and
\* makes no call to the generation service.
C17_RerankPassthrough ==
    (RerankReturned /\ Len(candidates) <= topK)
    => /\ ranked = candidates
       /\ \A k \in 1..Len(ranked) : ~ranked[k].reranked
       /\ calls = <<>>

\* exactly topK candidates were given
C17_Witness ==
    /\ RerankReturned
    /\ topK = 2
    /\ Len(candidates) = 2
    /\ ranked = candidates

(***************************************************************************)
(* Properties of answer streaming                                          *)
(***************************************************************************)
RECURSIVE Concat(_)
Concat(ss) == IF ss = <<>> THEN "" ELSE Head(ss) \o Concat(Tail(ss))

\* the contents of the token events, in order
TokenContents ==
    LET toks == SelectSeq(events, LAMBDA e : e.type = "token")
    IN [k \in 1..Len(toks) |-> toks[k].content]

\* the chunks read from the generation stream while the client was there
ReadForClient == IF cancelAt >= 0 THEN SubSeq(received, 1, cancelAt) ELSE received

\* the text deltas among them: the chunks whose delta holds text
TextDeltas ==
    LET ds == SelectSeq(ReadForClient, LAMBDA c : c.hasContent /\ c.content # "")
    IN [k \in 1..Len(ds) |-> ds[k].content]

\* every delta content among them, the empty ones included
AllDeltas == [k \in 1..Len(ReadForClient) |-> ReadForClient[k].content]

\* an answer is or was being streamed
AnswerStreaming == genState \in {"open", "exhausted", "failed", "aborted"} /\ events # <<>>

\* C18 (token forwarding): while an answer is streamed the token events are, in
\* order and content, the text deltas read from the generation stream, and the
\* concatenation of the token contents is the concatenation of the deltas.
C18_TokenForwarding ==
    AnswerStreaming =>
        /\ TokenContents = TextDeltas
        /\ Concat(TokenContents) = Concat(AllDeltas)

\* a chunk without text came between two text deltas, one of them white space
C18_Witness ==
    /\ rpc = "closed"
    /\ genState = "exhausted"
    /\ Len(received) = 2
    /\ received[1].content = " "
    /\ received[2].content = "a"
    /\ TokenContents = <<" ", "a">>

(***************************************************************************)
(* Properties of the pipeline as a whole                                   *)
(***************************************************************************)
\* the stage a collaborator call belongs to: 1 embedding, 2 vector-index
\* query, 3 a completion that is not streamed (the rerank grading call, and the
\* answer of the non-streaming callers), 4 the streaming generation request
StageOf(c) ==
    CASE c.svc = "embeddings" -> 1
      [] c.svc = "index" -> 2
      [] c.svc = "chat" /\ ~c.stream -> 3
      [] OTHER -> 4

Stages == [k \in 1..Len(calls) |-> StageOf(calls[k])]

IsPrefix(a, b) == Len(a) <= Len(b) /\ a = SubSeq(b, 1, Len(a))

\* the call orders the pipeline allows: streaming handlers grade at most once
\* and then stream at most once; the non-streaming callers grade at most once
\* and then ask for the answer, which is not streamed
AllowedOrders ==
    IF endpoint \in {"stream", "analyze"}
    THEN {<<1, 2, 3, 4>>, <<1, 2, 4>>}
    ELSE {<<1, 2, 3, 3>>, <<1, 2, 3>>}

\* the stage of the call the handler is suspended on, 0 if on none
AwaitedStage ==
    CASE rpc \in {"embedding", "sc-embedding"} -> 1
      [] rpc \in {"searching", "sc-searching"} -> 2
      [] rpc \in {"grading", "sc-grading", "answering"} -> 3
      [] rpc \in {"generating", "forwarding"} -> 4
      [] OTHER -> 0

\* the calls to the generation service that have not returned: the completion
\* awaited, and the generation stream requested or open
OutstandingGeneration ==
    (IF rpc \in {"grading", "sc-grading", "answering"} THEN 1 ELSE 0)
    + (IF genState \in {"requested", "open"} THEN 1 ELSE 0)

RunsPipeline == endpoint \in {"stream", "analyze", "query", "evaluate"}

\* C11 (sequential pipeline): within one request the calls are issued in the
\* order embedding, vector-index query, at most one grading call, at most one
\* generation request (after the gate, for analysis); the call the handler
\* waits for is always the last one issued, so none is issued before the
\* previous has returned; at no time are two generation-service calls waited
\* for; and the gate has let the generation request through.
C11_SequentialPipeline ==
    RunsPipeline =>
        /\ \E o \in AllowedOrders : IsPrefix(Stages, o)
        /\ AwaitedStage # 0 => (calls # <<>> /\ StageOf(calls[Len(calls)]) = AwaitedStage)
        /\ OutstandingGeneration <= 1
        /\ (endpoint = "analyze" /\ GenerationRequested) => GatePasses(ranked)

\* an analysis request that went through all four calls and is streaming
C11_Witness ==
    /\ endpoint = "analyze"
    /\ rpc = "forwarding"
    /\ Stages = <<1, 2, 3, 4>>
    /\ Len(received) = 1

\* a required field of the request is missing or malformed
InvalidRequest ==
    \/ ~body.parseable
    \/ endpoint \in {"stream", "analyze", "query"} /\ body.query.t # "string"
    \/ endpoint = "analyze" /\ ~(body.mode.t = "string" /\ body.mode.s \in VALID_MODES)
    \/ endpoint = "file-context" /\ body.parseable /\ body.filePath.t # "string"

\* C12 (validation before side effects): on every endpoint a request with a
\* missing or malformed required field, or an unparseable body, is answered
\* with a 4xx status and no collaborator call is made for it.
C12_ValidationFirst ==
    (endpoint \in {"stream", "analyze", "query", "file-context"}
     /\ InvalidRequest /\ rpc # "received")
    => /\ rpc = "responded"
       /\ status \in 400..499
       /\ calls = <<>>

\* C15 (prefix confinement): in every run of the retrieval pipeline the text
\* given to the reranker and the question given to the generation model are
\* the literal user query; a mode's prefix reaches the embedding call only.
C15_PrefixConfinement ==
    RunsPipeline =>
        \A k \in 1..Len(calls) : calls[k].svc = "chat" => calls[k].text = body.query.s

\* the records of the index for the path looked up
StoredFor(f) == {r \in index : f.t = "string" /\ r.filePath = f.s}

ServedIds == {served[k].id : k \in 1..Len(served)}

\* C19 (file-context completeness): the response of a file-context lookup
\* holds every chunk of the index with that filePath, each once, in ascending
\* startLine, however many there are.
C19_FileContextComplete ==
    (endpoint = "file-context" /\ rpc = "responded" /\ status = 200)
    => /\ ServedIds = {r.id : r \in StoredFor(body.filePath)}
       /\ Len(served) = Cardinality(StoredFor(body.filePath))
       /\ \A a, b \in 1..Len(served) : a < b => served[a].startLine <= served[b].startLine

(***************************************************************************)
(* Properties of the web client                                            *)
(***************************************************************************)
\* the query started last
Latest == Len(queries)

\* the answers the page may show for query q: the concatenation of the first
\* m token texts of its stream, for some m
AnswersOf(q) == {Concat([n \in 1..m |-> TokenText(q, n)]) : m \in 0..MaxTokens}

\* C30 (client stream isolation): whatever the page shows belongs to the
\* query started last: the displayed results are empty or that query's
\* sources, the displayed answer is the in-order concatenation of token events
\* of that query alone, and the streaming indicator is off only when no query
\* was started or that query has completed.
C30_ClientIsolation ==
    Latest >= 1 =>
        /\ shownResults \in {<<>>, <<Latest>>}
        /\ answer \in AnswersOf(Latest)
        /\ ~isStreaming => queries[Latest].pc = "finished"

====
